---- MODULE Spec2Model ----
(***************************************************************************)
(* Structural retrieval and fusion engine of ME-IR: LaTeX canonicalization *)
(* (approach0_hash.py), hash recall with fuzzy lookup (recall_api.py), the  *)
(* path inverted index (path_inverted_index.py), reciprocal rank fusion     *)
(* (rank_fusion.py, run_experiments.py), the confidence filter (filtering/) *)
(* the staged search of scripts/run_eval.py, and the hash index built by    *)
(* scripts/build_full_corpus.py with the lookups of the evaluators.         *)
(*                                                                         *)
(* A Python str is a sequence of one-character strings; a Python list is a *)
(* sequence; a Python dict is the sequence of its items in insertion order *)
(* where the code reads that order, and a function on its keys elsewhere.  *)
(***************************************************************************)
EXTENDS Integers, Sequences, FiniteSets, TLC

VARIABLES
    latex_str,        \* clean_latex: the argument of the current call
    canonical,        \* clean_latex: first component of the result
    was_normalized,   \* clean_latex: second component of the result
    prev_canonical,   \* canonical string of the call before the current one
    norm_calls        \* number of clean_latex calls made on this string so far

normVars == <<latex_str, canonical, was_normalized, prev_canonical, norm_calls>>

VARIABLES
    f_query,          \* HighConfidenceFilter.apply: query["latex"]
    f_candidates,     \* its candidates, each [formula_id, sim]: sim is the cosine
                      \* similarity the STS model computes for (query, candidate)
    f_config,         \* FormulaSTSModel: [threshold, use_adaptive_threshold]
    f_sts_score,      \* the sts_score field written into the candidates
    f_filtered,       \* what apply_threshold returned
    f_result,         \* what apply returned
    f_pc              \* "ready" before the call, "done" after it

filterVars == <<f_query, f_candidates, f_config, f_sts_score, f_filtered, f_result, f_pc>>

VARIABLES
    r_index,          \* Approach0HashIndex: [index, all_formulas]; index is the
                      \* bucket dict in insertion order, each bucket [hash, ids]
    r_config,         \* StructuralRecall: [enable_fuzzy, fuzzy_max_distance,
                      \* fuzzy_max_buckets]
    r_query,          \* recall: query["latex"]
    r_topk,           \* recall: topk
    r_exact,          \* what _exact_match returned in this call
    r_fuzzy,          \* what _fuzzy_match returned in this call
    r_examined,       \* buckets whose Hamming distance _fuzzy_match computed
    r_stages,         \* the lookups this call ran, in order
    r_result,         \* what recall returned
    r_pc              \* "ready" before the call, "done" after it

recallVars == <<r_index, r_config, r_query, r_topk, r_exact, r_fuzzy, r_examined,
                r_stages, r_result, r_pc>>

VARIABLES
    p_query,          \* search_manual: query["latex"]
    p_config,         \* config['pipeline']: [topk_recall, topk_rank, final_k]
    p_graph_prior,    \* components['graph_prior'] is set
    p_recalled,       \* what the recall stage returned
    p_candidates,     \* the local variable candidates
    p_result,         \* what search_manual returned
    p_pc              \* the stage to run next, "done" after the return

pipeVars == <<p_query, p_config, p_graph_prior, p_recalled, p_candidates, p_result, p_pc>>

VARIABLES
    fu_fn,            \* the fusion called: "rank_fusion" (retrieval/rank_fusion.py)
                      \* or "evaluator" (Evaluator.reciprocal_rank_fusion)
    fu_vector,        \* vector_results, or sem_run[qid]: items <<fid, raw score>>
    fu_sub,           \* substructure_results, or str_run[qid]
    fu_k,             \* k, or k_rrf
    fu_top_n,         \* top_n of rank_fusion
    fu_w,             \* <<w_sem, w_str>> of the evaluator, in 1/WeightUnit
    fu_scores,        \* the accumulator (rrf_scores, scores) after the two loops
    fu_fused,         \* what the call returned
    fu_before,        \* the streams and the accumulator of the call before
    fu_pc             \* "ready" before the first call, "done" after a call

fusionVars == <<fu_fn, fu_vector, fu_sub, fu_k, fu_top_n, fu_w, fu_scores, fu_fused,
                fu_before, fu_pc>>

VARIABLES
    pi_path_length,     \* PathInvertedIndex.path_length
    pi_formulas,        \* formulas_dict, in the order of its keys: the formula of
                        \* fid i is pi_formulas[i]
    pi_index,           \* PathInvertedIndex.index: path -> list of fids
    pi_formula_lengths, \* PathInvertedIndex.formula_lengths: fid -> number of paths
    pi_idf,             \* PathInvertedIndex.idf: path -> weight, in thousandths
    pi_total_formulas,  \* PathInvertedIndex.total_formulas
    pi_query,           \* search: query_latex
    pi_top_k,           \* search: top_k
    pi_result,          \* what search returned: items <<fid, score>>
    pi_pc               \* "new" before build_index, "built" after it, "done"
                        \* after search

pathVars == <<pi_path_length, pi_formulas, pi_index, pi_formula_lengths, pi_idf,
              pi_total_formulas, pi_query, pi_top_k, pi_result, pi_pc>>

VARIABLES
    hx_corpus,        \* build_full_system: corpus, the items of the dict in
                      \* insertion order, each [formula_id, latex, latex_norm]
    hx_index,         \* Approach0HashIndex.index: hash -> list of visual ids
    hx_stats,         \* build_full_system: stats
    hx_built,         \* the index as build_full_system saved it
    hx_query,         \* the raw query of the current lookup
    hx_via,           \* the caller of the lookup: "hybrid" (search_single) or
                      \* "cascade" (CascadedRetriever.retrieve)
    hx_q_hash,        \* the hash the lookup computed for the query
    hx_returned,      \* the list the lookup returned
    hx_alias,         \* the key of the bucket that list object is, NoBucket
                      \* when the list is an object of its own
    hx_extended,      \* a caller has extended a list returned to it
    hx_pc             \* "building" during the build, "serving" after it

hashVars == <<hx_corpus, hx_index, hx_stats, hx_built, hx_query, hx_via, hx_q_hash,
              hx_returned, hx_alias, hx_extended, hx_pc>>

VARIABLES
    sp_latex,         \* extract_structural_paths: the argument
    sp_tokens,        \* tokens, the list re.findall returned
    sp_done,          \* number of tokens the loop has processed
    sp_stack,         \* stack
    sp_origin,        \* for each marker on the stack, the index of the token
                      \* that pushed it
    sp_paths,         \* paths
    sp_log            \* for each atomic token processed: its index, the tokens
                      \* whose markers were on the stack, the paths appended

structVars == <<sp_latex, sp_tokens, sp_done, sp_stack, sp_origin, sp_paths, sp_log>>

VARIABLES
    ipi_lines,        \* build: number of shard lines read so far
    ipi_index,        \* build: inverted_index, path -> (doc id -> frequency)
    ipi_df_counts,    \* build: df_counts
    ipi_total_docs,   \* build: total_docs
    ipi_indexed,      \* the LaTeX strings of the rows indexed so far
    ipi_data,         \* the content of data/indices/ipi_index.bin
    ipi_query,        \* search: the LaTeX of the current query
    ipi_paths,        \* search: paths, the tokens of the query that are keys
                      \* of the index
    ipi_scored,       \* search: the paths that passed the weight test
    ipi_scores,       \* search: scores, in insertion order
    ipi_written,      \* search: the (doc id, score) of the lines written
    ipi_pc            \* "building", "saved" or "searched"

ipiVars == <<ipi_lines, ipi_index, ipi_df_counts, ipi_total_docs, ipi_indexed, ipi_data,
             ipi_query, ipi_paths, ipi_scored, ipi_scores, ipi_written, ipi_pc>>

VARIABLES
    cr_db,            \* the table formula_index: formula_id -> h_latex
    cr_fids,          \* CascadedRetriever.fids, the vector id mapping
    cr_sims,          \* inner product of the query embedding with each vector
                      \* of the index, by position
    cr_final_top_k,   \* FINAL_TOP_K of the run
    cr_query,         \* retrieve: query_latex
    cr_use_cascade,   \* retrieve: the argument use_cascade
    cr_stage1_ids,    \* retrieve: stage1_ids
    cr_mode,          \* the branch stage 2 took: "cascade" or "full"
    cr_result_ids,    \* retrieve: result_ids
    cr_result_distances,  \* retrieve: result_distances, as the distances found and
                      \* the number of slots left unfilled
    cr_pc             \* "idle", "ready" or "done"

cascadeVars == <<cr_db, cr_fids, cr_sims, cr_final_top_k, cr_query, cr_use_cascade,
                 cr_stage1_ids, cr_mode, cr_result_ids, cr_result_distances, cr_pc>>

VARIABLES
    vb_total,         \* build_index: len(latex_list); fids[i] is formula i
    vb_config,        \* BATCH_SIZE and CHECKPOINT_STEP of the run
    vb_index_file,    \* artifacts/vector_index.faiss: for each vector the
                      \* formula it encodes, NoFile while the file is absent
    vb_mapping_file,  \* artifacts/vector_id_mapping.json
    vb_state_file,    \* artifacts/build_state.json: last_processed_idx
    vb_index,         \* build_index: index, in memory
    vb_saved_fids,    \* build_index: saved_fids
    vb_i,             \* build_index: i of the batch loop
    vb_pc,            \* position of the process: "stopped", "loop",
                      \* "write_index", "write_mapping", "write_state", "finished"
    vb_crashes,       \* number of crashes so far
    vb_skipped        \* number of batches that raised and were skipped

buildVars == <<vb_total, vb_config, vb_index_file, vb_mapping_file, vb_state_file,
               vb_index, vb_saved_fids, vb_i, vb_pc, vb_crashes, vb_skipped>>

vars == <<normVars, filterVars, recallVars, pipeVars, fusionVars, pathVars, hashVars,
          structVars, ipiVars, cascadeVars, buildVars>>

notNorm == <<filterVars, recallVars, pipeVars, fusionVars, pathVars, hashVars,
             structVars, ipiVars, cascadeVars, buildVars>>
notFilter == <<normVars, recallVars, pipeVars, fusionVars, pathVars, hashVars,
               structVars, ipiVars, cascadeVars, buildVars>>
notRecall == <<normVars, filterVars, pipeVars, fusionVars, pathVars, hashVars,
               structVars, ipiVars, cascadeVars, buildVars>>
notPipe == <<normVars, filterVars, recallVars, fusionVars, pathVars, hashVars,
             structVars, ipiVars, cascadeVars, buildVars>>
notFusion == <<normVars, filterVars, recallVars, pipeVars, pathVars, hashVars,
               structVars, ipiVars, cascadeVars, buildVars>>
notPath == <<normVars, filterVars, recallVars, pipeVars, fusionVars, hashVars,
             structVars, ipiVars, cascadeVars, buildVars>>
notHash == <<normVars, filterVars, recallVars, pipeVars, fusionVars, pathVars,
             structVars, ipiVars, cascadeVars, buildVars>>
notStruct == <<normVars, filterVars, recallVars, pipeVars, fusionVars, pathVars,
               hashVars, ipiVars, cascadeVars, buildVars>>
notIpi == <<normVars, filterVars, recallVars, pipeVars, fusionVars, pathVars, hashVars,
            structVars, cascadeVars, buildVars>>
notCascade == <<normVars, filterVars, recallVars, pipeVars, fusionVars, pathVars,
                hashVars, structVars, ipiVars, buildVars>>
notBuild == <<normVars, filterVars, recallVars, pipeVars, fusionVars, pathVars,
              hashVars, structVars, ipiVars, cascadeVars>>

(***************************************************************************)
(* Bounds of the model.                                                    *)
(***************************************************************************)
MaxPieces == 3        \* an input string is made of at most this many pieces
MaxNormCalls == 3     \* clean_latex is re-applied at most this many times

(***************************************************************************)
(* Strings.                                                                *)
(***************************************************************************)
BS == "\\"

\* s[i..] starts with p
MatchAt(s, i, p) ==
    /\ i + Len(p) - 1 <= Len(s)
    /\ \A j \in 1..Len(p) : s[i + j - 1] = p[j]

RECURSIVE ReplaceFrom(_, _, _, _)
ReplaceFrom(s, i, old, new) ==
    IF i > Len(s) THEN <<>>
    ELSE IF MatchAt(s, i, old) THEN new \o ReplaceFrom(s, i + Len(old), old, new)
    ELSE <<s[i]>> \o ReplaceFrom(s, i + 1, old, new)

\* str.replace(old, new) for a non-empty old: leftmost non-overlapping
\* occurrences, the replacement text is not scanned again
StrReplace(s, old, new) == ReplaceFrom(s, 1, old, new)

RECURSIVE Concat(_)
Concat(ss) == IF ss = <<>> THEN <<>> ELSE Head(ss) \o Concat(Tail(ss))

(***************************************************************************)
(* approach0_hash.py: LATEX_SYMBOL_MAPPING and DualHashGenerator            *)
(***************************************************************************)
\* The table in the order of DualHashGenerator.sorted_symbols: by key length,
\* longest first, keys of equal length in the order of the dict literal.
sorted_symbols == <<
    << <<BS,"v","a","r","e","p","s","i","l","o","n">>, <<BS,"e","p","s","i","l","o","n">> >>,
    << <<BS,"v","a","r","t","h","e","t","a">>, <<BS,"t","h","e","t","a">> >>,
    << <<BS,"v","a","r","k","a","p","p","a">>, <<BS,"k","a","p","p","a">> >>,
    << <<BS,"v","a","r","s","i","g","m","a">>, <<BS,"s","i","g","m","a">> >>,
    << <<"^",BS,"d","a","g","g","e","r">>, <<"^","T">> >>,
    << <<BS,"l","b","r","a","c","e">>, <<"{">> >>,
    << <<BS,"r","b","r","a","c","e">>, <<"}">> >>,
    << <<BS,"l","a","n","g","l","e">>, <<"<">> >>,
    << <<BS,"r","a","n","g","l","e">>, <<">">> >>,
    << <<BS,"v","a","r","r","h","o">>, <<BS,"r","h","o">> >>,
    << <<BS,"v","a","r","p","h","i">>, <<BS,"p","h","i">> >>,
    << <<BS,"v","a","r","p","i">>, <<BS,"p","i">> >>,
    << <<BS,"V","e","r","t">>, <<"|","|">> >>,
    << <<BS,"g","e","t","s">>, <<BS,"l","e","f","t","a","r","r","o","w">> >>,
    << <<BS,"l","a","n","d">>, <<BS,"w","e","d","g","e">> >>,
    << <<BS,"l","n","o","t">>, <<BS,"n","e","g">> >>,
    << <<BS,"l","o","r">>, <<BS,"v","e","e">> >>,
    << <<BS,"l","e">>, <<BS,"l","e","q">> >>,
    << <<BS,"g","e">>, <<BS,"g","e","q">> >>,
    << <<BS,"n","e">>, <<BS,"n","e","q">> >>,
    << <<BS,"t","o">>, <<BS,"r","i","g","h","t","a","r","r","o","w">> >>,
    << <<BS,"|">>, <<"|","|">> >>,
    << <<"^","H">>, <<"^","T">> >>,
    << <<"^","*">>, <<"^","T">> >> >>

\* self.font_commands: the list holds r'\\mathbf', ..., each of which is two
\* backslashes followed by the command name
font_commands == <<
    <<BS,BS,"m","a","t","h","b","f">>, <<BS,BS,"m","a","t","h","r","m">>,
    <<BS,BS,"m","a","t","h","i","t">>, <<BS,BS,"m","a","t","h","s","f">>,
    <<BS,BS,"m","a","t","h","t","t">>, <<BS,BS,"m","a","t","h","b","b">>,
    <<BS,BS,"m","a","t","h","c","a","l">>, <<BS,BS,"m","a","t","h","f","r","a","k">>,
    <<BS,BS,"t","e","x","t">>, <<BS,BS,"b","m">> >>

\* the characters \s matches in the strings of the model
WhiteSpace == {" ", "\t", "\n"}

\* re.sub(r'\$\$?|\\\[|\\\]', '', s)
RECURSIVE StripDelimsFrom(_, _)
StripDelimsFrom(s, i) ==
    IF i > Len(s) THEN <<>>
    ELSE IF s[i] = "$" THEN
        StripDelimsFrom(s, IF i < Len(s) /\ s[i + 1] = "$" THEN i + 2 ELSE i + 1)
    ELSE IF MatchAt(s, i, <<BS, "[">>) \/ MatchAt(s, i, <<BS, "]">>) THEN
        StripDelimsFrom(s, i + 2)
    ELSE <<s[i]>> \o StripDelimsFrom(s, i + 1)

StripDelims(s) == StripDelimsFrom(s, 1)

\* for cmd in self.font_commands: s = s.replace(cmd, '')
\* (an empty string stays empty under every later replace)
RECURSIVE StripFonts(_, _)
StripFonts(s, n) ==
    IF n > Len(font_commands) THEN s
    ELSE LET r == StrReplace(s, font_commands[n], <<>>)
         IN  IF r = <<>> THEN r ELSE StripFonts(r, n + 1)

\* for old, new in self.sorted_symbols: s = s.replace(old, new)
RECURSIVE ApplySymbols(_, _)
ApplySymbols(s, n) ==
    IF n > Len(sorted_symbols) THEN s
    ELSE LET r == StrReplace(s, sorted_symbols[n][1], sorted_symbols[n][2])
         IN  IF r = <<>> THEN r ELSE ApplySymbols(r, n + 1)

\* re.sub(r'\\<kw>\{(p|b|v|V)matrix\}', r'\\<kw>{matrix}', s), kw = begin, end
MatrixEnv(kw, c) == <<BS>> \o kw \o <<"{">> \o c \o <<"m","a","t","r","i","x","}">>

RECURSIVE UnifyMatrixFrom(_, _, _)
UnifyMatrixFrom(s, i, kw) ==
    IF i > Len(s) THEN <<>>
    ELSE IF \E c \in {"p", "b", "v", "V"} : MatchAt(s, i, MatrixEnv(kw, <<c>>)) THEN
        MatrixEnv(kw, <<>>) \o UnifyMatrixFrom(s, i + Len(MatrixEnv(kw, <<"p">>)), kw)
    ELSE <<s[i]>> \o UnifyMatrixFrom(s, i + 1, kw)

UnifyMatrix(s) ==
    UnifyMatrixFrom(UnifyMatrixFrom(s, 1, <<"b","e","g","i","n">>), 1, <<"e","n","d">>)

\* re.sub(r'\\left|\\right|\\displaystyle|\\limits', '', s)
decor_commands == <<
    <<BS,"l","e","f","t">>, <<BS,"r","i","g","h","t">>,
    <<BS,"d","i","s","p","l","a","y","s","t","y","l","e">>,
    <<BS,"l","i","m","i","t","s">> >>

RECURSIVE StripDecorFrom(_, _)
StripDecorFrom(s, i) ==
    IF i > Len(s) THEN <<>>
    ELSE IF \E n \in 1..Len(decor_commands) : MatchAt(s, i, decor_commands[n]) THEN
        LET n == CHOOSE m \in 1..Len(decor_commands) :
                     /\ MatchAt(s, i, decor_commands[m])
                     /\ \A l \in 1..(m - 1) : ~MatchAt(s, i, decor_commands[l])
        IN  StripDecorFrom(s, i + Len(decor_commands[n]))
    ELSE <<s[i]>> \o StripDecorFrom(s, i + 1)

StripDecor(s) == StripDecorFrom(s, 1)

\* re.sub(r'\s+', '', s.strip())
StripSpace(s) == SelectSeq(s, LAMBDA c : c \notin WhiteSpace)

\* the first index >= i of s whose character is not in S (Len(s) + 1 if none)
RECURSIVE RunEnd(_, _, _)
RunEnd(s, i, S) == IF i > Len(s) \/ s[i] \notin S THEN i ELSE RunEnd(s, i + 1, S)

\* the first index >= i of s that holds a brace (Len(s) + 1 if none)
RECURSIVE ContentEnd(_, _)
ContentEnd(s, i) ==
    IF i > Len(s) \/ s[i] \in {"{", "}"} THEN i ELSE ContentEnd(s, i + 1)

\* re.sub(r'\{+([^{}]+)\}+', r'{\1}', s): a run of {, a non-empty brace-free
\* content and a run of } become {content}; the scan resumes after the match
RECURSIVE CollapseBracesFrom(_, _)
CollapseBracesFrom(s, i) ==
    IF i > Len(s) THEN <<>>
    ELSE LET j == RunEnd(s, i, {"{"})
             m == ContentEnd(s, j)
         IN  IF j > i /\ m > j /\ m <= Len(s) /\ s[m] = "}"
             THEN <<"{">> \o SubSeq(s, j, m - 1) \o <<"}">>
                      \o CollapseBracesFrom(s, RunEnd(s, m, {"}"}))
             ELSE <<s[i]>> \o CollapseBracesFrom(s, i + 1)

CollapseBraces(s) == CollapseBracesFrom(s, 1)

\* DualHashGenerator.clean_latex(latex_str): <<canonical, was_normalized>>
clean_latex(s0) ==
    IF s0 = <<>> THEN <<(<<>>), FALSE>>
    ELSE LET s1 == StripDelims(s0)
             s2 == StripFonts(s1, 1)
             s3 == ApplySymbols(s2, 1)
             s4 == UnifyMatrix(s3)
             s5 == StripSpace(StripDecor(s4))
             s6 == CollapseBraces(s5)
             base_clean == StripSpace(StripDelims(s0))
         IN  <<s6, s6 # base_clean>>

(***************************************************************************)
(* filtering/formula_sts_model.py and filtering/high_conf_filter.py        *)
(* Similarities, thresholds and complexities are counted in units of       *)
(* 1/Unit, so that every float of the code is an integer here.             *)
(***************************************************************************)
Unit == 10000

RECURSIVE CountFrom(_, _, _)
CountFrom(s, i, pat) ==
    IF i > Len(s) THEN 0
    ELSE IF MatchAt(s, i, pat) THEN 1 + CountFrom(s, i + Len(pat), pat)
    ELSE CountFrom(s, i + 1, pat)

\* s.count(pat): the number of non-overlapping occurrences
StrCount(s, pat) == CountFrom(s, 1, pat)

\* pat in s
Contains(s, pat) == \E i \in 1..Len(s) : MatchAt(s, i, pat)

Min(a, b) == IF a <= b THEN a ELSE b

\* FormulaSTSModel._compute_query_complexity
compute_query_complexity(latex) ==
    IF latex = <<>> THEN 0
    ELSE LET nesting == (StrCount(latex, <<BS,"f","r","a","c">>)
                          + StrCount(latex, <<BS,"s","q","r","t">>)) * (Unit \div 10)
             special == (StrCount(latex, <<BS,"i","n","t">>)
                          + StrCount(latex, <<BS,"s","u","m">>)
                          + StrCount(latex, <<BS,"l","i","m">>)
                          + StrCount(latex, <<BS,"p","r","o","d">>)) * ((Unit * 15) \div 100)
             matrix == IF Contains(latex, <<"m","a","t","r","i","x">>)
                          \/ Contains(latex, <<"a","r","r","a","y">>)
                       THEN (Unit * 3) \div 10 ELSE 0
             length == Min(Len(latex) * (Unit \div 100), (Unit * 3) \div 10)
         IN  Min(nesting + special + matrix + length, Unit)

\* FormulaSTSModel._get_adaptive_threshold
get_adaptive_threshold(cfg, query_latex) ==
    IF ~cfg.use_adaptive_threshold THEN cfg.threshold
    ELSE cfg.threshold + (Unit - compute_query_complexity(query_latex)) \div 10

\* the emergency retry of apply_threshold applies to more than this many
\* candidates, when fewer than 5% of them passed
EmergencyMinCandidates == 10

PassRateLow(n_filtered, n_candidates) == n_filtered * 100 < 5 * n_candidates

\* FormulaSTSModel.apply_threshold: the list it returns
apply_threshold(cfg, query_latex, candidates) ==
    IF candidates = <<>> THEN <<>>
    ELSE LET threshold == get_adaptive_threshold(cfg, query_latex)
             filtered == SelectSeq(candidates, LAMBDA c : c.sim >= threshold)
         IN  IF PassRateLow(Len(filtered), Len(candidates))
                  /\ Len(candidates) > EmergencyMinCandidates
             THEN SelectSeq(candidates, LAMBDA c : c.sim >= threshold - Unit \div 10)
             ELSE filtered

\* mutant: apply without the fallback to the unfiltered candidates
HighConfidenceFilter_apply_NoFallback(candidates, filtered) == filtered

\* HighConfidenceFilter.apply, given what apply_threshold returned
HighConfidenceFilter_apply(candidates, filtered) ==
    IF candidates = <<>> THEN <<>>
    ELSE IF filtered = <<>> THEN candidates
    ELSE filtered

(***************************************************************************)
(* Inputs of the filter: a list of candidates is a free prefix of at most   *)
(* MaxFreeCands similarities followed by at most MaxTailCands candidates of *)
(* one similarity (long lists are needed to reach the emergency retry).     *)
(***************************************************************************)
MaxFreeCands == 2
MaxTailCands == 21

SimValues == {6000, 7000, 8000}

RECURSIVE SimSeqs(_)
SimSeqs(n) ==
    IF n = 0 THEN { <<>> }
    ELSE LET shorter == SimSeqs(n - 1)
         IN  shorter \cup { Append(ss, v) : ss \in shorter, v \in SimValues }

FilterSimLists ==
    { free \o [i \in 1..n |-> v] :
        free \in SimSeqs(MaxFreeCands), n \in 0..MaxTailCands, v \in SimValues }

CandidatesOf(sims) == [i \in 1..Len(sims) |-> [formula_id |-> i, sim |-> sims[i]]]

FilterQueries == { <<>>, <<"a">>, <<BS,"s","u","m","a">>, <<BS,"f","r","a","c","a","b">> }

FilterConfigs ==
    { [threshold |-> th, use_adaptive_threshold |-> ad] :
        th \in {6500, 7500}, ad \in BOOLEAN }

(***************************************************************************)
(* retrieval/recall_api.py: StructuralRecall over an Approach0HashIndex.   *)
(* The index class of retrieval/approach0_hash.py (skeleton_hash, add,     *)
(* retrieve, all_formulas) is modelled from its use and from the design:   *)
(* a bucket per hash in ingestion order, and the list of all formulas.     *)
(* A formula is known by its formula_id, its position in the corpus.       *)
(***************************************************************************)
MaxDocs == 3          \* formulas in a corpus
MaxTopK == 3          \* topk of a recall
FuzzyDistances == {0, 1, 2}   \* fuzzy_max_distance
FuzzyBuckets == {0, 1, 2}     \* fuzzy_max_buckets (the constructor takes any int)

HexDigits == <<"0","1","2","3","4","5","6","7","8","9","a","b","c","d","e","f">>

HexValue(c) == (CHOOSE i \in 1..Len(HexDigits) : HexDigits[i] = c) - 1

\* int(h, 16)
RECURSIVE HexToInt(_)
HexToInt(h) ==
    IF h = <<>> THEN 0
    ELSE 16 * HexToInt(SubSeq(h, 1, Len(h) - 1)) + HexValue(h[Len(h)])

\* bin(a ^ b).count('1')
RECURSIVE Hamming(_, _)
Hamming(a, b) ==
    IF a = 0 /\ b = 0 THEN 0
    ELSE (IF a % 2 # b % 2 THEN 1 ELSE 0) + Hamming(a \div 2, b \div 2)

\* the LaTeX strings of the corpus and of the queries, and their digests
RecallLatex == { <<"a">>, <<"b">>, <<"c">>, <<"d">> }

skeleton_hash(latex) ==
    CASE latex = <<"a">> -> <<"0">>
      [] latex = <<"b">> -> <<"1">>
      [] latex = <<"c">> -> <<"3">>
      [] latex = <<"d">> -> <<"8">>

BucketAt(index, h) ==
    IF \E i \in 1..Len(index) : index[i].hash = h
    THEN CHOOSE i \in 1..Len(index) : index[i].hash = h
    ELSE 0

\* Approach0HashIndex.add of the formula with this id and LaTeX
IndexAdd(idx, fid, latex) ==
    LET h == skeleton_hash(latex)
        i == BucketAt(idx.index, h)
    IN  [index |-> IF i = 0 THEN Append(idx.index, [hash |-> h, ids |-> <<fid>>])
                   ELSE [idx.index EXCEPT ![i].ids = Append(@, fid)],
         all_formulas |-> Append(idx.all_formulas, fid)]

\* build_index: index.add of every formula of the corpus, in order
RECURSIVE BuildHashIndex(_, _)
BuildHashIndex(corpus, n) ==
    IF n = 0 THEN [index |-> <<>>, all_formulas |-> <<>>]
    ELSE IndexAdd(BuildHashIndex(corpus, n - 1), n, corpus[n])

\* StructuralRecall._exact_match: index.retrieve(query_latex, mathml_skel)
exact_match(idx, query_latex) ==
    LET i == BucketAt(idx.index, skeleton_hash(query_latex))
    IN  IF i = 0 THEN <<>> ELSE idx.index[i].ids

\* StructuralRecall._fuzzy_match: the scan of self.index.index.items() from
\* bucket i on; the result is [candidates, bucket_count, examined]
RECURSIVE FuzzyScan(_, _, _, _, _)
FuzzyScan(index, i, query_hash_int, cfg, acc) ==
    IF i > Len(index) THEN acc
    ELSE LET distance == Hamming(query_hash_int, HexToInt(index[i].hash))
             seen == [acc EXCEPT !.examined = @ + 1]
         IN  IF distance <= cfg.fuzzy_max_distance
             THEN LET got == [seen EXCEPT !.candidates = @ \o index[i].ids,
                                          !.bucket_count = @ + 1]
                  IN  IF got.bucket_count >= cfg.fuzzy_max_buckets THEN got
                      ELSE FuzzyScan(index, i + 1, query_hash_int, cfg, got)
             ELSE FuzzyScan(index, i + 1, query_hash_int, cfg, seen)

fuzzy_match(idx, cfg, query_latex) ==
    FuzzyScan(idx.index, 1, HexToInt(skeleton_hash(query_latex)), cfg,
              [candidates |-> <<>>, bucket_count |-> 0, examined |-> 0])

InSeq(x, s) == \E i \in 1..Len(s) : s[i] = x

Prefix(s, n) == SubSeq(s, 1, Min(Len(s), n))

\* mutant: the merge loop without the seen_ids test
RECURSIVE MergeFuzzy_NoDedup(_, _, _, _)
MergeFuzzy_NoDedup(candidates, fuzzy_candidates, i, topk) ==
    IF i > Len(fuzzy_candidates) THEN candidates
    ELSE LET more == Append(candidates, fuzzy_candidates[i])
         IN  IF Len(more) >= topk THEN more
             ELSE MergeFuzzy_NoDedup(more, fuzzy_candidates, i + 1, topk)

\* recall, the merge loop: fuzzy candidates not yet seen are appended until
\* topk candidates are held
RECURSIVE MergeFuzzy(_, _, _, _)
MergeFuzzy(candidates, fuzzy_candidates, i, topk) ==
    IF i > Len(fuzzy_candidates) THEN candidates
    ELSE IF ~InSeq(fuzzy_candidates[i], candidates)
    THEN LET more == Append(candidates, fuzzy_candidates[i])
         IN  IF Len(more) >= topk THEN more
             ELSE MergeFuzzy(more, fuzzy_candidates, i + 1, topk)
    ELSE MergeFuzzy(candidates, fuzzy_candidates, i + 1, topk)

\* mutant: the fallback samples nothing
fallback_random_Empty(idx, k) == { <<>> }

\* StructuralRecall._fallback_random: the lists random.sample may return
fallback_random(idx, k) ==
    IF idx.all_formulas = <<>> THEN { <<>> }
    ELSE LET n == Len(idx.all_formulas)
             size == Min(k, n)
         IN  { [i \in 1..size |-> idx.all_formulas[pos[i]]] :
                 pos \in { f \in [1..size -> 1..n] :
                             \A a, b \in 1..size : a # b => f[a] # f[b] } }

\* StructuralRecall.recall, with `sample` what _fallback_random returns if it
\* is called: [result, exact, fuzzy, examined, stages]
recall(idx, cfg, query_latex, topk, sample) ==
    IF query_latex = <<>>
    THEN [result |-> <<>>, exact |-> <<>>, fuzzy |-> <<>>, examined |-> 0,
          stages |-> <<>>]
    ELSE LET exact == exact_match(idx, query_latex)
         IN  IF Len(exact) >= topk
             THEN [result |-> Prefix(exact, topk), exact |-> exact, fuzzy |-> <<>>,
                   examined |-> 0, stages |-> <<"exact">>]
             ELSE LET run_fuzzy == cfg.enable_fuzzy /\ Len(exact) < topk
                      scan == IF run_fuzzy THEN fuzzy_match(idx, cfg, query_latex)
                              ELSE [candidates |-> <<>>, bucket_count |-> 0,
                                    examined |-> 0]
                      merged == IF run_fuzzy
                                THEN MergeFuzzy(exact, scan.candidates, 1, topk)
                                ELSE exact
                      fell_back == Len(merged) = 0
                      candidates == IF fell_back THEN sample ELSE merged
                  IN  [result |-> Prefix(candidates, topk),
                       exact |-> exact,
                       fuzzy |-> scan.candidates,
                       examined |-> scan.examined,
                       stages |-> <<"exact">>
                                    \o (IF run_fuzzy THEN <<"fuzzy">> ELSE <<>>)
                                    \o (IF fell_back THEN <<"fallback">> ELSE <<>>)]

(***************************************************************************)
(* scripts/run_eval.py: search_manual. The coarse ranker and the graph     *)
(* prior (ranking/, graph/) are collaborators: the ranker returns some     *)
(* candidates of its input in some order, the graph prior reorders.        *)
(***************************************************************************)
MaxPipeDocs == 2      \* formulas in the corpus of a staged search
MaxPipeK == 2         \* topk_recall, topk_rank, final_k of a staged search

Range(s) == { s[i] : i \in 1..Len(s) }

\* the sequences without repetition over the set S
Arrangements(S) ==
    UNION { { f \in [1..n -> S] : \A a, b \in 1..n : a # b => f[a] # f[b] } :
              n \in 0..Cardinality(S) }

\* components['coarse'].rank(query, candidates): the lists it may return
coarse_rank(candidates) == Arrangements(Range(candidates))

\* components['graph_prior'].rerank(candidates): the lists it may return
graph_rerank(candidates) ==
    { a \in Arrangements(Range(candidates)) : Len(a) = Len(candidates) }

\* the candidates of the filter stage with the similarities the STS model
\* computes for them
WithSims(candidates, sims) ==
    [i \in 1..Len(candidates) |-> [formula_id |-> candidates[i], sim |-> sims[i]]]

FormulaIds(candidates) == [i \in 1..Len(candidates) |-> candidates[i].formula_id]

(***************************************************************************)
(* retrieval/rank_fusion.py and Evaluator.reciprocal_rank_fusion of        *)
(* evaluation/run_experiments.py. A stream is a list of items              *)
(* <<fid, raw score>> without a repeated fid; a run of the evaluator is a  *)
(* dict doc_id -> raw score, the same items in insertion order. fids are   *)
(* written as numbers, and str(fid) of a fid is that fid. A weight is      *)
(* counted in 1/WeightUnit and a fused score in 1/(WeightUnit *            *)
(* ScoreDenom(k)), a common multiple of every k + rank, so that the floats *)
(* of the code are exact integers here.                                    *)
(***************************************************************************)
MaxStream == 2        \* items in a stream

FusionIds == {1, 2, 3}
RawScores == {1, 2}
FusionKs == {0, 60}
FusionTopNs == {1, 100}
WeightUnit == 10
FusionWeights == { <<10, 3>>, <<10, 10>>, <<0, 10>> }
RunCut == 1000

RECURSIVE RankProduct(_, _)
RankProduct(k, n) == IF n = 0 THEN 1 ELSE (k + n) * RankProduct(k, n - 1)

ScoreDenom(k) == RankProduct(k, MaxStream)

\* the mistake of leaving the reciprocal out
Reciprocal_Product(w, k, rank) == w * (k + rank)
\* w / (k + rank)
Reciprocal(w, k, rank) == w * (ScoreDenom(k) \div (k + rank))

\* position of the key in a dict, 0 when the dict does not hold it
KeyIndex(d, key) ==
    LET at == { i \in 1..Len(d) : d[i][1] = key }
    IN  IF at = {} THEN 0 ELSE CHOOSE i \in at : \A j \in at : i <= j

\* the mistake of writing = for +=
DictAdd_Overwrite(scores, key, delta) ==
    LET i == KeyIndex(scores, key)
    IN  IF i = 0 THEN Append(scores, <<key, delta>>)
        ELSE [scores EXCEPT ![i] = <<key, delta>>]
\* scores[key] += delta on a defaultdict(float)
DictAdd(scores, key, delta) ==
    LET i == KeyIndex(scores, key)
    IN  IF i = 0 THEN Append(scores, <<key, delta>>)
        ELSE [scores EXCEPT ![i] = <<key, scores[i][2] + delta>>]

\* for rank, item in enumerate(results, start=1):
\*     rrf_scores[str(item[0])] += 1.0 / (k + rank)
RECURSIVE AccumulateRanks(_, _, _, _)
AccumulateRanks(rrf_scores, results, k, rank) ==
    IF rank > Len(results) THEN rrf_scores
    ELSE LET next == DictAdd(rrf_scores, results[rank][1],
                             Reciprocal(WeightUnit, k, rank))
         IN  AccumulateRanks(next, results, k, rank + 1)

\* sorted(items, key=lambda x: x[1], reverse=True): the sort is stable, items
\* of equal score keep the order they had
RECURSIVE SortedByScore(_)
SortedByScore(items) ==
    IF items = <<>> THEN <<>>
    ELSE LET x == Head(items)
             rest == SortedByScore(Tail(items))
         IN  SelectSeq(rest, LAMBDA y : y[2] > x[2]) \o <<x>> \o
             SelectSeq(rest, LAMBDA y : y[2] <= x[2])

\* rank_fusion.py: the accumulator after the two loops
rrf_scores_of(vector_results, substructure_results, k) ==
    AccumulateRanks(AccumulateRanks(<<>>, vector_results, k, 1),
                    substructure_results, k, 1)

\* rank_fusion.py: reciprocal_rank_fusion
reciprocal_rank_fusion(vector_results, substructure_results, k, top_n) ==
    Prefix(SortedByScore(rrf_scores_of(vector_results, substructure_results, k)),
           top_n)

\* for rank, (doc_id, _) in enumerate(sorted_run[:1000]):
\*     scores[doc_id] += w / (k_rrf + rank + 1)
RECURSIVE AccumulateRun(_, _, _, _, _)
AccumulateRun(scores, sorted_run, w, k_rrf, rank) ==
    IF rank >= Len(sorted_run) THEN scores
    ELSE LET next == DictAdd(scores, sorted_run[rank + 1][1],
                             Reciprocal(w, k_rrf, rank + 1))
         IN  AccumulateRun(next, sorted_run, w, k_rrf, rank + 1)

\* the mistake of fusing the structural run with the default weight 0.3
\* whatever w_str is
Evaluator_reciprocal_rank_fusion_DefaultWeight(sem_run, str_run, w_sem, w_str, k_rrf) ==
    LET sorted_sem == SortedByScore(sem_run)
        sem_scores == AccumulateRun(<<>>, Prefix(sorted_sem, RunCut), w_sem, k_rrf, 0)
        sorted_str == SortedByScore(str_run)
    IN  AccumulateRun(sem_scores, Prefix(sorted_str, RunCut), 3, k_rrf, 0)

\* Evaluator.reciprocal_rank_fusion, for one qid: fused_run[qid]
Evaluator_reciprocal_rank_fusion(sem_run, str_run, w_sem, w_str, k_rrf) ==
    LET sorted_sem == SortedByScore(sem_run)
        sem_scores == AccumulateRun(<<>>, Prefix(sorted_sem, RunCut), w_sem, k_rrf, 0)
        sorted_str == SortedByScore(str_run)
    IN  AccumulateRun(sem_scores, Prefix(sorted_str, RunCut), w_str, k_rrf, 0)

\* one call of the fusion fn: the accumulator and the value returned
FusionCall(fn, vector, sub, k, top_n, w) ==
    IF fn = "rank_fusion"
    THEN [scores |-> rrf_scores_of(vector, sub, k),
          fused |-> reciprocal_rank_fusion(vector, sub, k, top_n)]
    ELSE LET scores == Evaluator_reciprocal_rank_fusion(vector, sub, w[1], w[2], k)
         IN  [scores |-> scores, fused |-> scores]

\* the rank the fusion fn gives a fid in a stream, 0 when the fid is absent:
\* rank_fusion ranks by position, the evaluator by position after its sort
RankIn(fn, stream, fid) ==
    IF fn = "rank_fusion" THEN KeyIndex(stream, fid)
    ELSE KeyIndex(SortedByScore(stream), fid)

\* the score a dict holds for a key, 0 when it does not hold the key
ScoreOf(scores, key) ==
    LET i == KeyIndex(scores, key) IN IF i = 0 THEN 0 ELSE scores[i][2]

\* the streams of at most n items
RECURSIVE Streams(_)
Streams(n) ==
    IF n = 0 THEN { <<>> }
    ELSE LET shorter == Streams(n - 1)
         IN  shorter \cup
             UNION { { Append(s, <<fid, raw>>) :
                         fid \in { f \in FusionIds : KeyIndex(s, f) = 0 },
                         raw \in RawScores } :
                     s \in { t \in shorter : Len(t) = n - 1 } }

\* the item at position i moved one position up
MoveUp(stream, i) ==
    [stream EXCEPT ![i - 1] = stream[i], ![i] = stream[i - 1]]

\* the raw score of the item at position i set to raw
WithRaw(stream, i, raw) == [stream EXCEPT ![i] = <<stream[i][1], raw>>]

(***************************************************************************)
(* retrieval/path_inverted_index.py: PathInvertedIndex. A token and a path *)
(* are strings. The dicts index, formula_lengths and idf are functions on  *)
(* their keys: the code never reads the order of their keys. A weight      *)
(* log10(N / (df + 1)) is counted in thousandths, from a table of log10;   *)
(* a score sum / sqrt(length) is kept as the pair [sum, length] and two    *)
(* scores are compared through their squares, so that scores that are      *)
(* equal in the code are equal here.                                       *)
(***************************************************************************)
MaxPathDocs == 2      \* formulas in formulas_dict
MaxPathTopK == 2      \* top_k of a search

Letters ==
    {"a","b","c","d","e","f","g","h","i","j","k","l","m","n","o","p","q","r","s",
     "t","u","v","w","x","y","z","A","B","C","D","E","F","G","H","I","J","K","L",
     "M","N","O","P","Q","R","S","T","U","V","W","X","Y","Z"}
Digits == {"0","1","2","3","4","5","6","7","8","9"}
OperatorChars == {"+", "-", "*", "/", "=", "(", ")", "_", "^"}
BraceChars == {"{", "}"}

\* re.findall(r'\\[a-zA-Z]+|[{}]|[0-9a-zA-Z]|[\+\-\*/=\(\)_^]', latex) from
\* position i on: a character no alternative matches is passed over
RECURSIVE FindTokens(_, _)
FindTokens(latex, i) ==
    IF i > Len(latex) THEN <<>>
    ELSE IF latex[i] = BS /\ i < Len(latex) /\ latex[i + 1] \in Letters THEN
        LET e == RunEnd(latex, i + 1, Letters)
        IN  <<SubSeq(latex, i, e - 1)>> \o FindTokens(latex, e)
    ELSE IF latex[i] \in BraceChars \cup Digits \cup Letters \cup OperatorChars THEN
        <<<<latex[i]>>>> \o FindTokens(latex, i + 1)
    ELSE FindTokens(latex, i + 1)

\* "->".join(tokens)
RECURSIVE JoinArrow(_)
JoinArrow(tokens) ==
    IF tokens = <<>> THEN <<>>
    ELSE IF Len(tokens) = 1 THEN tokens[1]
    ELSE tokens[1] \o <<"-", ">">> \o JoinArrow(Tail(tokens))

\* PathInvertedIndex._extract_paths on a str
extract_paths_Short(latex, path_length) ==
    LET tokens == FindTokens(StripSpace(latex), 1)
        n == Len(tokens) - path_length
    IN  [i \in 1..(IF n > 0 THEN n ELSE 0) |->
            JoinArrow(SubSeq(tokens, i, i + path_length - 1))]

extract_paths(latex, path_length) ==
    LET tokens == FindTokens(StripSpace(latex), 1)
        n == Len(tokens) - path_length + 1
    IN  [i \in 1..(IF n > 0 THEN n ELSE 0) |->
            JoinArrow(SubSeq(tokens, i, i + path_length - 1))]

\* 1000 * log10(n), rounded, for n = 1..8
Log10Milli == <<0, 301, 477, 602, 699, 778, 845, 903>>

\* math.log10(total_formulas / (df + 1)), in thousandths
idf_weight(total_formulas, df) == Log10Milli[total_formulas] - Log10Milli[df + 1]

\* build_index, the loop over formulas_dict from fid on: ix is
\* [index, formula_lengths]; a formula without a path is passed over
RECURSIVE IndexFormulas(_, _, _, _)
IndexFormulas(ix, formulas, path_length, fid) ==
    IF fid > Len(formulas) THEN ix
    ELSE LET paths == extract_paths(formulas[fid], path_length)
             unique_paths == Range(paths)
             next ==
                 [index |->
                      [p \in DOMAIN ix.index \cup unique_paths |->
                          IF p \in unique_paths
                          THEN Append(IF p \in DOMAIN ix.index THEN ix.index[p]
                                      ELSE <<>>, fid)
                          ELSE ix.index[p]],
                  formula_lengths |->
                      [f \in DOMAIN ix.formula_lengths \cup {fid} |->
                          IF f = fid THEN Len(paths) ELSE ix.formula_lengths[f]]]
         IN  IF paths = <<>> THEN IndexFormulas(ix, formulas, path_length, fid + 1)
             ELSE IndexFormulas(next, formulas, path_length, fid + 1)

EmptyMap == [x \in {} |-> 0]

\* PathInvertedIndex.build_index: [index, formula_lengths, idf, total_formulas];
\* df_counter[p] is the number of fids of index[p]
build_index(formulas_dict, path_length) ==
    LET ix == IndexFormulas([index |-> EmptyMap, formula_lengths |-> EmptyMap],
                            formulas_dict, path_length, 1)
        total_formulas == Len(formulas_dict)
    IN  [index |-> ix.index,
         formula_lengths |-> ix.formula_lengths,
         idf |-> [p \in DOMAIN ix.index |->
                     idf_weight(total_formulas, Len(ix.index[p]))],
         total_formulas |-> total_formulas]

\* Counter(q_paths): the distinct paths in the order of their first
\* occurrence, each with the number of its occurrences
RECURSIVE PathCounter(_, _)
PathCounter(counts, q_paths) ==
    IF q_paths = <<>> THEN counts
    ELSE PathCounter(DictAdd(counts, Head(q_paths), 1), Tail(q_paths))

\* for fid in self.index[path]: scores[fid] += q_count * weight
RECURSIVE ScorePostings(_, _, _)
ScorePostings(scores, postings, delta) ==
    IF postings = <<>> THEN scores
    ELSE ScorePostings(DictAdd(scores, Head(postings), delta), Tail(postings), delta)

\* search, the loop over q_path_counts.items()
RECURSIVE ScorePaths(_, _, _, _)
ScorePaths(scores, q_path_counts, index, idf) ==
    IF q_path_counts = <<>> THEN scores
    ELSE LET path == Head(q_path_counts)[1]
             q_count == Head(q_path_counts)[2]
             next == IF path \in DOMAIN index
                     THEN ScorePostings(scores, index[path], q_count * idf[path])
                     ELSE scores
         IN  ScorePaths(next, Tail(q_path_counts), index, idf)

\* the score a.sum / sqrt(a.length) is greater than b.sum / sqrt(b.length)
ScoreGreater(a, b) ==
    IF a.sum >= 0 /\ b.sum < 0 THEN TRUE
    ELSE IF a.sum < 0 /\ b.sum >= 0 THEN FALSE
    ELSE IF a.sum >= 0 THEN a.sum * a.sum * b.length > b.sum * b.sum * a.length
    ELSE a.sum * a.sum * b.length < b.sum * b.sum * a.length

\* sorted(scores.items(), key=lambda x: x[1], reverse=True) on normalized
\* scores: stable, items of equal score keep the order they had
RECURSIVE SortedByNormScore(_)
SortedByNormScore(items) ==
    IF items = <<>> THEN <<>>
    ELSE LET x == Head(items)
             rest == SortedByNormScore(Tail(items))
         IN  SelectSeq(rest, LAMBDA y : ScoreGreater(y[2], x[2])) \o <<x>> \o
             SelectSeq(rest, LAMBDA y : ~ScoreGreater(y[2], x[2]))

\* PathInvertedIndex.search
search(ix, path_length, query_latex, top_k) ==
    LET q_paths == extract_paths(query_latex, path_length)
        scores == ScorePaths(<<>>, PathCounter(<<>>, q_paths), ix.index, ix.idf)
        normalized ==
            [i \in 1..Len(scores) |->
                <<scores[i][1],
                  [sum |-> scores[i][2],
                   length |-> IF scores[i][1] \in DOMAIN ix.formula_lengths
                              THEN ix.formula_lengths[scores[i][1]] ELSE 1]>>]
    IN  IF q_paths = <<>> THEN <<>>
        ELSE Prefix(SortedByNormScore(normalized), top_k)

\* the LaTeX strings of the corpus and of the queries:
\* ab, ba, bab, a ba, \pia, \pi{a}, a,ab and the empty string
PathLatex ==
    { <<"a", "b">>, <<"b", "a">>, <<"b", "a", "b">>, <<"a", " ", "b", "a">>,
      <<BS, "p", "i", "a">>, <<BS, "p", "i", "{", "a", "}">>,
      <<"a", ",", "a", "b">>, <<>> }
PathLengths == {1, 2, 3}
PathTopKs == (1..MaxPathTopK) \cup {1000}

RECURSIVE PathCorpora(_)
PathCorpora(n) ==
    IF n = 0 THEN { <<>> }
    ELSE LET shorter == PathCorpora(n - 1)
         IN  shorter \cup
             { Append(c, x) : c \in { t \in shorter : Len(t) = n - 1 }, x \in PathLatex }

(***************************************************************************)
(* The hash index: build_full_system (scripts/build_full_corpus.py),       *)
(* Approach0HashIndex (approach0_hash.py) and its callers.                 *)
(***************************************************************************)
\* str.strip()
RECURSIVE LStrip(_)
LStrip(s) ==
    IF s # <<>> /\ Head(s) \in WhiteSpace THEN LStrip(Tail(s)) ELSE s

RECURSIVE RStrip(_)
RStrip(s) ==
    IF s # <<>> /\ s[Len(s)] \in WhiteSpace THEN RStrip(SubSeq(s, 1, Len(s) - 1))
    ELSE s

StrStrip(s) == RStrip(LStrip(s))

\* re.sub of an alternation of literal strings: at each position the first
\* alternative that matches is replaced, the replacement is not scanned again
RECURSIVE SubAltFrom(_, _, _, _)
SubAltFrom(s, i, alts, new) ==
    IF i > Len(s) THEN <<>>
    ELSE LET hits == { n \in 1..Len(alts) : MatchAt(s, i, alts[n]) }
         IN  IF hits # {} THEN
                 LET n == CHOOSE h \in hits : \A g \in hits : h <= g
                 IN  new \o SubAltFrom(s, i + Len(alts[n]), alts, new)
             ELSE <<s[i]>> \o SubAltFrom(s, i + 1, alts, new)

SubAlt(s, alts, new) == SubAltFrom(s, 1, alts, new)

\* re.sub(r'\s+', ' ', s): each run of whitespace becomes one space
RECURSIVE CollapseSpaceFrom(_, _)
CollapseSpaceFrom(s, i) ==
    IF i > Len(s) THEN <<>>
    ELSE IF s[i] \in WhiteSpace THEN
        <<" ">> \o CollapseSpaceFrom(s, RunEnd(s, i, WhiteSpace))
    ELSE <<s[i]>> \o CollapseSpaceFrom(s, i + 1)

CollapseSpace(s) == CollapseSpaceFrom(s, 1)

\* str.lower() on the letters of the model
UpperCase == <<"A", "B", "C", "X", "Y">>
LowerCase == <<"a", "b", "c", "x", "y">>

LowerChar(c) ==
    IF \E i \in 1..Len(UpperCase) : UpperCase[i] = c
    THEN LowerCase[CHOOSE i \in 1..Len(UpperCase) : UpperCase[i] = c]
    ELSE c

StrLower(s) == [i \in 1..Len(s) |-> LowerChar(s[i])]

\* the module-level clean_latex of evaluation/cascaded_retrieval.py (the
\* same function is in evaluation/hash_recall_evaluator.py)
cascade_clean_latex(s0) ==
    IF s0 = <<>> THEN <<>>
    ELSE LET s1 == StripDelims(s0)
             s2 == SubAlt(s1, << <<BS,"d","f","r","a","c">>,
                                 <<BS,"t","f","r","a","c">> >>, <<BS,"f","r","a","c">>)
             s3 == SubAlt(s2, << <<BS,"l","e","f","t">>,
                                 <<BS,"r","i","g","h","t">> >>, <<>>)
             s4 == CollapseSpace(StrStrip(s3))
         IN  StrLower(s4)

\* hashlib.md5(s.encode('utf-8')).hexdigest() on the canonical strings the
\* inputs of the model produce
md5_hexdigest == <<
    << <<"a","+","b">>, "65c884f742c8591808a121a828bc09f8" >>,
    << <<"a","+","c">>, "b778743b8bfe44752a09fad05f764d3b" >>,
    << <<"x","*","y">>, "c9637bb17a6ee6e65a397cbcca1b9f78" >>,
    << <<"A","+","b">>, "f2024c527d0812781292a2d49f42f8b5" >>,
    << <<BS,"l","e","q">>, "de44c582df9d8d29dbbd70aca311c641" >>,
    << <<BS,"l","e","q","q">>, "d9b6c9de5f53a83c891aead87b34b699" >> >>

md5(s) == (CHOOSE e \in Range(md5_hexdigest) : e[1] = s)[2]

\* the LaTeX fields of the corpus rows and the raw queries of the model
HashIds == {1, 2, 3}
HashIssues == {<<>>, <<"d">>}
HashFields == {
    <<"a","+","b">>, <<"a"," ","+"," ","b">>, <<"a","+","b"," ">>,
    <<"A","+","b">>, <<"$","$">>, <<BS,"l","e">> }
HashQueries == HashFields \cup {<<>>}

\* hash_gen.clean_latex and the module-level clean_latex on the strings the
\* build and the lookups of the model pass to them, each computed once
HashStripped == { StrStrip(f) : f \in HashQueries }
HashCanonical == { clean_latex(raw)[1] : raw \in HashStripped }
CleanTable == [raw \in HashStripped \cup HashCanonical |-> clean_latex(raw)]
CascadeCleanTable == [s \in HashCanonical |-> cascade_clean_latex(s)]

hash_gen_clean_latex(raw) ==
    IF raw \in DOMAIN CleanTable THEN CleanTable[raw] ELSE clean_latex(raw)

module_clean_latex(s) ==
    IF s \in DOMAIN CascadeCleanTable THEN CascadeCleanTable[s]
    ELSE cascade_clean_latex(s)

\* DualHashGenerator.generate_latex_hash
generate_latex_hash_Blank(clean) == ""

generate_latex_hash(clean) == IF clean = <<>> THEN "" ELSE md5(clean)

\* d[key] = value on a dict kept as a function on its keys
DictSet(d, key, value) ==
    [x \in DOMAIN d \cup {key} |-> IF x = key THEN value ELSE d[x]]

\* d.get(key, [])
DictGetList(d, key) == IF key \in DOMAIN d THEN d[key] ELSE <<>>

\* if h_val not in h_index.index: h_index.index[h_val] = []
\* h_index.index[h_val].append(visual_id)
bucket_append_Front(index, h_val, visual_id) ==
    DictSet(index, h_val, <<visual_id>> \o DictGetList(index, h_val))

bucket_append(index, h_val, visual_id) ==
    DictSet(index, h_val, DictGetList(index, h_val) \o <<visual_id>>)

\* the body of the row loop of build_full_system for a row of nine fields
\* or more: st is [corpus, index, stats], row is [visual_id, issue, latex]
\* with the text fields as the file holds them

build_row(st, row) ==
    LET visual_id == row.visual_id
        issue == StrStrip(row.issue)
        raw_latex == StrStrip(row.latex)
        counted == [st.stats EXCEPT !.total_instances = @ + 1]
    IN  IF Contains(issue, <<"d">>) THEN
            [st EXCEPT !.stats = [counted EXCEPT !.skipped_issue_d = @ + 1]]
        ELSE IF \E i \in 1..Len(st.corpus) : st.corpus[i].formula_id = visual_id THEN
            [st EXCEPT !.stats = [counted EXCEPT !.duplicate_skipped = @ + 1]]
        ELSE
            LET cl == hash_gen_clean_latex(raw_latex)
                h_val == generate_latex_hash(cl[1])
            IN  [corpus |-> Append(st.corpus,
                                   [formula_id |-> visual_id, latex |-> raw_latex,
                                    latex_norm |-> cl[1]]),
                 index |-> bucket_append(st.index, h_val, visual_id),
                 stats |-> [counted EXCEPT
                               !.normalized_count = IF cl[2] THEN @ + 1 ELSE @,
                               !.unique_visual_ids = @ + 1]]

\* Approach0HashIndex.search
Approach0HashIndex_search(index, h_latex) == DictGetList(index, h_latex)

\* the query as Part 1 of build_full_system writes it to queries_full.json
prepared_query(raw) == hash_gen_clean_latex(StrStrip(raw))[1]

\* HybridEvaluator.search_single up to the hash lookup: the hash of the query
hybrid_query_hash(raw) ==
    generate_latex_hash(hash_gen_clean_latex(prepared_query(raw))[1])

\* cascaded_retrieval: the query as main cleans it, then the hash of stage 1
cascade_query_hash(raw) ==
    generate_latex_hash(module_clean_latex(prepared_query(raw)))

(***************************************************************************)
(* scripts/build_structural_index.py: the structural paths of a formula.   *)
(***************************************************************************)
\* the characters [\w] matches in the strings of the model
WordChars == Letters \cup Digits \cup {"_"}
\* the characters of [{}()^|_=+]
StructChars == {"{", "}", "(", ")", "^", "|", "_", "=", "+"}

\* re.findall(r'\\[a-zA-Z]+|[\w]+|[{}()^|_=+]', str(latex)) from position i
\* on: a command, else a run of word characters, else one of the listed
\* characters; a character no alternative matches is passed over
RECURSIVE StructTokens(_, _)
StructTokens(latex, i) ==
    IF i > Len(latex) THEN <<>>
    ELSE IF latex[i] = BS /\ i < Len(latex) /\ latex[i + 1] \in Letters THEN
        LET e == RunEnd(latex, i + 1, Letters)
        IN  <<SubSeq(latex, i, e - 1)>> \o StructTokens(latex, e)
    ELSE IF latex[i] \in WordChars THEN
        LET e == RunEnd(latex, i, WordChars)
        IN  <<SubSeq(latex, i, e - 1)>> \o StructTokens(latex, e)
    ELSE IF latex[i] \in StructChars THEN
        <<<<latex[i]>>>> \o StructTokens(latex, i + 1)
    ELSE StructTokens(latex, i + 1)

SubMarker == <<"s", "u", "b">>
SupMarker == <<"s", "u", "p">>

\* "_".join(parts)
RECURSIVE JoinUnderscore(_)
JoinUnderscore(parts) ==
    IF parts = <<>> THEN <<>>
    ELSE IF Len(parts) = 1 THEN parts[1]
    ELSE parts[1] \o <<"_">> \o JoinUnderscore(Tail(parts))

\* the paths the loop appends for the atomic token t: the token, the token
\* under the top marker, the token under the whole stack
atom_paths(stack, t) ==
    <<t>>
    \o (IF stack # <<>> THEN <<stack[Len(stack)] \o <<"_">> \o t>> ELSE <<>>)
    \o (IF Len(stack) >= 1 THEN <<JoinUnderscore(Append(stack, t))>> ELSE <<>>)

\* the stack after the token t
stack_after(stack, t) ==
    IF t = <<"{">> THEN Append(stack, SubMarker)
    ELSE IF t = <<"}">> THEN
        (IF stack # <<>> THEN SubSeq(stack, 1, Len(stack) - 1) ELSE stack)
    ELSE IF t \in { <<"^">>, <<"_">> } THEN
        Append(stack, IF t = <<"^">> THEN SupMarker ELSE SubMarker)
    ELSE IF stack # <<>> /\ stack[Len(stack)] \in {SupMarker, SubMarker} THEN
        SubSeq(stack, 1, Len(stack) - 1)
    ELSE stack

IsAtom(t) == t \notin { <<"{">>, <<"}">>, <<"^">>, <<"_">> }

\* the loop of extract_structural_paths over tokens[i..]
RECURSIVE ScanTokens(_, _, _, _)
ScanTokens(tokens, i, stack, paths) ==
    IF i > Len(tokens) THEN paths
    ELSE ScanTokens(tokens, i + 1, stack_after(stack, tokens[i]),
                    IF IsAtom(tokens[i]) THEN paths \o atom_paths(stack, tokens[i])
                    ELSE paths)

\* build_structural_index.extract_structural_paths
extract_structural_paths(latex) ==
    ScanTokens(StructTokens(latex, 1), 1, <<>>, <<>>)

(***************************************************************************)
(* scripts/build_structural_index.py: build, and scripts/                  *)
(* search_structural.py: search.  A weight math.log(x) is counted in       *)
(* millionths, and so is a score.                                          *)
(***************************************************************************)
\* inverted_index[p][fid] += 1 on the defaultdict of defaultdict(int)
IndexBump(index, p, fid) ==
    LET i == KeyIndex(index, p)
    IN  IF i = 0 THEN Append(index, <<p, << <<fid, 1>> >> >>)
        ELSE [index EXCEPT ![i] = <<p, DictAdd(index[i][2], fid, 1)>>]

\* for p in paths: inverted_index[p][fid] += 1
RECURSIVE IndexPaths(_, _, _)
IndexPaths(index, paths, fid) ==
    IF paths = <<>> THEN index
    ELSE IndexPaths(IndexBump(index, Head(paths), fid), Tail(paths), fid)

\* for p in unique_paths_in_doc: df_counts[p] += 1
CountDocument(df_counts, unique_paths_in_doc) ==
    [p \in DOMAIN df_counts \cup unique_paths_in_doc |->
        (IF p \in DOMAIN df_counts THEN df_counts[p] ELSE 0)
        + (IF p \in unique_paths_in_doc THEN 1 ELSE 0)]

\* build, the body of the loop for one data line: st is
\* [index, df_counts, total_docs]; a formula without a path is passed over
build_line(st, row) ==
    LET paths == extract_structural_paths(row.latex)
    IN  IF paths = <<>> THEN st
        ELSE [index |-> IndexPaths(st.index, paths, row.fid),
              df_counts |-> CountDocument(st.df_counts, Range(paths)),
              total_docs |-> st.total_docs + 1]

\* 1000000 * math.log(n), rounded, for n = 1..20
LnMicro == <<0, 693147, 1098612, 1386294, 1609438, 1791759, 1945910, 2079442,
             2197225, 2302585, 2397895, 2484907, 2564949, 2639057, 2708050,
             2772589, 2833213, 2890372, 2944439, 2995732>>

\* math.log(total_docs / (1 + df))
ipi_idf(total_docs, df) == LnMicro[total_docs] - LnMicro[1 + df]

\* idf_map of build
idf_map_of(df_counts, total_docs) ==
    [p \in DOMAIN df_counts |-> ipi_idf(total_docs, df_counts[p])]

\* the weight threshold 2.0 of search
MinWeight == 2000000
\* sorted(...)[:1000] of search
IpiCut == 1000

\* (tf / (tf + 2.0)) * weight * bonus, with bonus 1.5 for a path that holds
\* a '_' and 1.0 for another
PathScore(tf, weight, p) ==
    (tf * weight * (IF InSeq("_", p) THEN 3 ELSE 2)) \div (2 * (tf + 2))

\* for fid, tf in index[p].items(): scores[fid] += ...
RECURSIVE ScoreHits(_, _, _, _)
ScoreHits(scores, doc_hits, weight, p) ==
    IF doc_hits = <<>> THEN scores
    ELSE ScoreHits(DictAdd(scores, Head(doc_hits)[1],
                           PathScore(Head(doc_hits)[2], weight, p)),
                   Tail(doc_hits), weight, p)

\* the paths of the query that search passes the weight test
Weighted(paths, idf_map) ==
    SelectSeq(paths, LAMBDA p :
        ~((IF p \in DOMAIN idf_map THEN idf_map[p] ELSE 0) < MinWeight))

\* search, the loop over paths
RECURSIVE ScoreQuery(_, _, _, _)
ScoreQuery(scores, paths, index, idf_map) ==
    IF paths = <<>> THEN scores
    ELSE LET p == Head(paths)
             weight == IF p \in DOMAIN idf_map THEN idf_map[p] ELSE 0
             next == IF weight < MinWeight THEN scores
                     ELSE ScoreHits(scores, index[KeyIndex(index, p)][2], weight, p)
         IN  ScoreQuery(next, Tail(paths), index, idf_map)

\* search, for one query: the paths looked up are the tokens of the query
\* that are keys of the index
query_paths(latex, index) ==
    SelectSeq(StructTokens(latex, 1), LAMBDA p : KeyIndex(index, p) # 0)

(***************************************************************************)
(* evaluation/cascaded_retrieval.py: CascadedRetriever.                     *)
(***************************************************************************)
Stage1TopK == 10000   \* STAGE1_TOP_K
FINAL_TOP_K == 1000

\* the orders of the positions of xs that a descending sort of xs can give:
\* equal values stand in any order (np.argsort(-similarities) and
\* index.search do not fix it)
DescOrders(xs) ==
    { p \in [1..Len(xs) -> 1..Len(xs)] :
        /\ \A i, j \in 1..Len(xs) : i # j => p[i] # p[j]
        /\ \A i \in 1..(Len(xs) - 1) : xs[p[i]] >= xs[p[i + 1]] }

\* the lists that hold every element of a set once
OrdersOf(S) ==
    { s \in [1..Cardinality(S) -> S] :
        \A i, j \in 1..Cardinality(S) : i # j => s[i] # s[j] }

\* str(fid) of a formula_id; the column is TEXT, so fid is a str already
str(fid) == fid

\* __init__: self.fid_to_idx = {fid: idx for idx, fid in enumerate(self.fids)};
\* of two equal ids the later position stays
fid_to_idx(fids) ==
    [fid \in Range(fids) |->
        (CHOOSE i \in 1..Len(fids) :
            fids[i] = fid /\ \A j \in (i + 1)..Len(fids) : fids[j] # fid) - 1]

\* retrieve, stage 1: cursor.fetchall() of SELECT formula_id FROM formula_index
\* WHERE h_latex = ? LIMIT ?; the statement has no ORDER BY
Stage1Ids(db, q_hash) ==
    LET hit == { fid \in DOMAIN db : db[fid] = q_hash }
    IN  { Prefix(s, Stage1TopK) : s \in OrdersOf(hit) }

\* retrieve: candidate_indices
candidate_indices(stage1_ids, f2i) ==
    LET Known(fid) == str(fid) \in DOMAIN f2i
        kept == SelectSeq(stage1_ids, Known)
    IN  [i \in 1..Len(kept) |-> f2i[str(kept[i])]]

\* retrieve: result_ids = [self.fids[idx] for idx in result_indices if idx != -1]
result_ids_of(fids, result_indices) ==
    LET Real(idx) == idx # -1
        kept == SelectSeq(result_indices, Real)
    IN  [i \in 1..Len(kept) |-> fids[kept[i] + 1]]

\* retrieve, stage 2 in cascade mode: the candidates ranked by inner product
CascadeStage2(stage1_ids, cand, fids, sims, top_k) ==
    LET similarities == [i \in 1..Len(cand) |-> sims[cand[i] + 1]]
    IN  { LET top_indices == Prefix(p, top_k)
              result_indices == [i \in 1..Len(top_indices) |-> cand[top_indices[i]]]
          IN  [stage1_ids |-> stage1_ids,
               mode |-> "cascade",
               result_ids |-> result_ids_of(fids, result_indices),
               result_distances |->
                   [found |-> [i \in 1..Len(top_indices) |->
                                  similarities[top_indices[i]]],
                    unfilled |-> 0]]
          : p \in DescOrders(similarities) }

\* retrieve, stage 2 in full mode: self.index.search(query_emb, FINAL_TOP_K).
\* The slots past the last vector hold the label -1, which result_ids drops,
\* and the lowest float as distance; result_distances keeps them, here as
\* their number
FullStage2(stage1_ids, fids, sims, top_k) ==
    { LET filled == Prefix(p, top_k)
          indices == [i \in 1..Len(filled) |-> filled[i] - 1]
      IN  [stage1_ids |-> stage1_ids,
           mode |-> "full",
           result_ids |-> result_ids_of(fids, indices),
           result_distances |->
               [found |-> [i \in 1..Len(filled) |-> sims[filled[i]]],
                unfilled |-> top_k - Len(filled)]]
      : p \in DescOrders(sims) }

retrieve_NoFallback(db, fids, sims, top_k, query_latex, use_cascade) ==
    LET q_hash == generate_latex_hash(query_latex)
        f2i == fid_to_idx(fids)
        fetched == IF use_cascade THEN Stage1Ids(db, q_hash) ELSE {<<>>}
    IN  UNION { LET cand == candidate_indices(stage1_ids, f2i)
                IN  IF use_cascade
                    THEN CascadeStage2(stage1_ids, cand, fids, sims, top_k)
                    ELSE FullStage2(stage1_ids, fids, sims, top_k)
                : stage1_ids \in fetched }

\* CascadedRetriever.retrieve: the results the call can return
retrieve(db, fids, sims, top_k, query_latex, use_cascade) ==
    LET q_hash == generate_latex_hash(query_latex)
        f2i == fid_to_idx(fids)
        fetched == IF use_cascade THEN Stage1Ids(db, q_hash) ELSE {<<>>}
    IN  UNION { LET cand == candidate_indices(stage1_ids, f2i)
                IN  IF use_cascade /\ stage1_ids # <<>> /\ cand # <<>>
                    THEN CascadeStage2(stage1_ids, cand, fids, sims, top_k)
                    ELSE FullStage2(stage1_ids, fids, sims, top_k)
                : stage1_ids \in fetched }

(***************************************************************************)
(* Inputs of the normalizer: concatenations of at most MaxPieces pieces,    *)
(* and a few whole formulas.                                               *)
(***************************************************************************)
NormPieces == {
    <<BS,"l","e">>, <<BS,"t","o">>, <<"q">>, <<"a">>,
    <<"{">>, <<"}">>, <<" ">>, <<"$">>, <<"^">>, <<"*">> }

RECURSIVE PieceSeqs(_)
PieceSeqs(n) ==
    IF n = 0 THEN { <<>> }
    ELSE LET shorter == PieceSeqs(n - 1)
         IN  shorter \cup { Append(ps, p) : ps \in shorter, p \in NormPieces }

\* whole formulas: each key of the alias table alone, and formulas with
\* delimiters and nested groups
NormFormulas ==
    { sorted_symbols[n][1] : n \in 1..Len(sorted_symbols) }
    \cup { <<"(", " ", "a", " ", ")">>,
            <<"x", "^", "{", "y", "_", "{", "z", "}", "}">>,
            <<"{", "{", "a", "}", "b", "}">>,
            <<"{", "{", "a", "}", "}">> }

NormInputs == { Concat(ps) : ps \in PieceSeqs(MaxPieces) } \cup NormFormulas

(***************************************************************************)
(* The normalizer as a state machine: a raw string is cleaned at ingestion  *)
(* (build) time, and the stored canonical string is cleaned again whenever *)
(* it comes back as a query (HybridEvaluator.search_single).               *)
(***************************************************************************)
NormIdle ==
    /\ latex_str = <<>>
    /\ canonical = <<>>
    /\ was_normalized = FALSE
    /\ prev_canonical = <<>>
    /\ norm_calls = 0

NormInit ==
    /\ latex_str \in NormInputs
    /\ canonical = <<>>
    /\ was_normalized = FALSE
    /\ prev_canonical = <<>>
    /\ norm_calls = 0

\* res = self.hash_gen.clean_latex(query_latex) on a raw string
CleanRaw ==
    /\ norm_calls = 0
    /\ canonical' = clean_latex(latex_str)[1]
    /\ was_normalized' = clean_latex(latex_str)[2]
    /\ prev_canonical' = canonical
    /\ norm_calls' = 1
    /\ UNCHANGED <<latex_str, notNorm>>

\* the same call on a string that is already canonical
CleanCanonical ==
    /\ norm_calls \in 1..(MaxNormCalls - 1)
    /\ latex_str' = canonical
    /\ canonical' = clean_latex(canonical)[1]
    /\ was_normalized' = clean_latex(canonical)[2]
    /\ prev_canonical' = canonical
    /\ norm_calls' = norm_calls + 1
    /\ UNCHANGED notNorm

NormNext == CleanRaw \/ CleanCanonical

FilterIdle ==
    /\ f_query = <<>>
    /\ f_candidates = <<>>
    /\ f_config = [threshold |-> 6500, use_adaptive_threshold |-> TRUE]
    /\ f_sts_score = <<>>
    /\ f_filtered = <<>>
    /\ f_result = <<>>
    /\ f_pc = "idle"

FilterInit ==
    /\ f_query \in FilterQueries
    /\ f_candidates \in { CandidatesOf(sims) : sims \in FilterSimLists }
    /\ f_config \in FilterConfigs
    /\ f_sts_score = <<>>
    /\ f_filtered = <<>>
    /\ f_result = <<>>
    /\ f_pc = "ready"

\* filterer.apply(query, candidates)
FilterApply ==
    /\ f_pc = "ready"
    /\ LET filtered == apply_threshold(f_config, f_query, f_candidates)
       IN  /\ f_filtered' = filtered
           /\ f_result' = HighConfidenceFilter_apply(f_candidates, filtered)
    /\ f_sts_score' = [i \in 1..Len(f_candidates) |-> f_candidates[i].sim]
    /\ f_pc' = "done"
    /\ UNCHANGED <<f_query, f_candidates, f_config, notFilter>>

FilterNext == FilterApply

(***************************************************************************)
(* Recall as a state machine: an index built from a corpus, one call.      *)
(***************************************************************************)
RECURSIVE LatexSeqs(_)
LatexSeqs(n) ==
    IF n = 0 THEN { <<>> }
    ELSE LET shorter == LatexSeqs(n - 1)
         IN  shorter \cup { Append(c, x) : c \in shorter, x \in RecallLatex }

\* with fuzzy matching disabled the two fuzzy settings are never read and
\* keep the defaults of __init__
RecallConfigs ==
    { [enable_fuzzy |-> TRUE, fuzzy_max_distance |-> d, fuzzy_max_buckets |-> b] :
        d \in FuzzyDistances, b \in FuzzyBuckets }
    \cup { [enable_fuzzy |-> FALSE, fuzzy_max_distance |-> 2, fuzzy_max_buckets |-> 50] }

RecallIdle ==
    /\ r_index = [index |-> <<>>, all_formulas |-> <<>>]
    /\ r_config = [enable_fuzzy |-> TRUE, fuzzy_max_distance |-> 2,
                   fuzzy_max_buckets |-> 50]
    /\ r_query = <<>>
    /\ r_topk = 0
    /\ r_exact = <<>>
    /\ r_fuzzy = <<>>
    /\ r_examined = 0
    /\ r_stages = <<>>
    /\ r_result = <<>>
    /\ r_pc = "idle"

RecallInit ==
    /\ r_index \in { BuildHashIndex(corpus, Len(corpus)) : corpus \in LatexSeqs(MaxDocs) }
    /\ r_config \in RecallConfigs
    /\ r_query \in RecallLatex \cup { <<>> }
    /\ r_topk \in 0..MaxTopK
    /\ r_exact = <<>>
    /\ r_fuzzy = <<>>
    /\ r_examined = 0
    /\ r_stages = <<>>
    /\ r_result = <<>>
    /\ r_pc = "ready"

\* recall.recall(query, topk)
Recall ==
    /\ r_pc = "ready"
    /\ \E sample \in fallback_random(r_index, r_topk) :
         LET out == recall(r_index, r_config, r_query, r_topk, sample)
         IN  /\ r_result' = out.result
             /\ r_exact' = out.exact
             /\ r_fuzzy' = out.fuzzy
             /\ r_examined' = out.examined
             /\ r_stages' = out.stages
    /\ r_pc' = "done"
    /\ UNCHANGED <<r_index, r_config, r_query, r_topk, notRecall>>

RecallNext == Recall

(***************************************************************************)
(* search_manual as a state machine: one step per stage.                   *)
(***************************************************************************)
PipeConfigs ==
    { [topk_recall |-> a, topk_rank |-> b, final_k |-> c] :
        a \in 1..MaxPipeK, b \in 1..MaxPipeK, c \in 1..MaxPipeK }

PipeIdle ==
    /\ p_query = <<>>
    /\ p_config = [topk_recall |-> 1, topk_rank |-> 1, final_k |-> 1]
    /\ p_graph_prior = FALSE
    /\ p_recalled = <<>>
    /\ p_candidates = <<>>
    /\ p_result = <<>>
    /\ p_pc = "idle"

\* build_pipeline_manual: the recall and filter objects of the pipeline
PipeInit ==
    /\ r_index \in { BuildHashIndex(corpus, Len(corpus)) : corpus \in LatexSeqs(MaxPipeDocs) }
    /\ r_config = [enable_fuzzy |-> TRUE, fuzzy_max_distance |-> 2,
                   fuzzy_max_buckets |-> 50]
    /\ r_query = <<>>
    /\ r_topk = 0
    /\ r_exact = <<>>
    /\ r_fuzzy = <<>>
    /\ r_examined = 0
    /\ r_stages = <<>>
    /\ r_result = <<>>
    /\ r_pc = "idle"
    /\ f_query = <<>>
    /\ f_candidates = <<>>
    /\ f_config \in { c \in FilterConfigs : c.use_adaptive_threshold }
    /\ f_sts_score = <<>>
    /\ f_filtered = <<>>
    /\ f_result = <<>>
    /\ f_pc = "idle"
    /\ p_query \in RecallLatex \cup { <<>> }
    /\ p_config \in PipeConfigs
    /\ p_graph_prior \in BOOLEAN
    /\ p_recalled = <<>>
    /\ p_candidates = <<>>
    /\ p_result = <<>>
    /\ p_pc = "recall"

\* Stage 1: candidates = recall.recall(query, topk_recall); return [] if empty
PipeRecall ==
    /\ p_pc = "recall"
    /\ \E sample \in fallback_random(r_index, p_config.topk_recall) :
         LET got == recall(r_index, r_config, p_query, p_config.topk_recall, sample).result
         IN  /\ p_recalled' = got
             /\ p_candidates' = got
             /\ p_pc' = IF got = <<>> THEN "done" ELSE "coarse"
    /\ p_result' = <<>>
    /\ UNCHANGED <<p_query, p_config, p_graph_prior, notPipe>>

\* Stage 2: candidates = coarse.rank(query, candidates)[:topk_rank]; return []
\* if empty
PipeCoarse ==
    /\ p_pc = "coarse"
    /\ \E ranked \in coarse_rank(p_candidates) :
         LET got == Prefix(ranked, p_config.topk_rank)
         IN  /\ p_candidates' = got
             /\ p_pc' = IF got = <<>> THEN "done" ELSE "filter"
    /\ p_result' = <<>>
    /\ UNCHANGED <<p_query, p_config, p_graph_prior, p_recalled, notPipe>>

\* Stage 3: candidates = filterer.apply(query, candidates); if empty, the
\* coarse ranking of a new recall, cut to final_k
PipeFilter ==
    /\ p_pc = "filter"
    /\ \E sims \in [1..Len(p_candidates) -> SimValues] :
         LET scored == WithSims(p_candidates, sims)
             kept == FormulaIds(HighConfidenceFilter_apply(
                         scored, apply_threshold(f_config, p_query, scored)))
         IN  IF kept # <<>> THEN p_candidates' = kept
             ELSE \E sample \in fallback_random(r_index, p_config.topk_recall) :
                  \E ranked \in coarse_rank(recall(r_index, r_config, p_query,
                                                   p_config.topk_recall, sample).result) :
                      p_candidates' = Prefix(ranked, p_config.final_k)
    /\ p_pc' = "graph"
    /\ UNCHANGED <<p_query, p_config, p_graph_prior, p_recalled, p_result, notPipe>>

\* Stage 4 and the return: graph_prior.rerank(candidates) if there is a graph
\* prior; return candidates[:final_k]
PipeGraph ==
    /\ p_pc = "graph"
    /\ \E reranked \in (IF p_graph_prior THEN graph_rerank(p_candidates)
                        ELSE { p_candidates }) :
         /\ p_candidates' = reranked
         /\ p_result' = Prefix(reranked, p_config.final_k)
    /\ p_pc' = "done"
    /\ UNCHANGED <<p_query, p_config, p_graph_prior, p_recalled, notPipe>>

PipeNext == PipeRecall \/ PipeCoarse \/ PipeFilter \/ PipeGraph

(***************************************************************************)
(* Fusion as a state machine: a first call, then one more call on the same *)
(* streams with one item moved up or given a higher raw score.             *)
(***************************************************************************)
NoCall == [called |-> FALSE, vector |-> <<>>, sub |-> <<>>, scores |-> <<>>]

FusionIdle ==
    /\ fu_fn = "rank_fusion"
    /\ fu_vector = <<>>
    /\ fu_sub = <<>>
    /\ fu_k = 60
    /\ fu_top_n = 100
    /\ fu_w = <<WeightUnit, WeightUnit>>
    /\ fu_scores = <<>>
    /\ fu_fused = <<>>
    /\ fu_before = NoCall
    /\ fu_pc = "idle"

FusionInit ==
    /\ fu_fn \in {"rank_fusion", "evaluator"}
    /\ fu_vector \in Streams(MaxStream)
    /\ fu_sub \in Streams(MaxStream)
    /\ fu_k \in FusionKs
    /\ fu_top_n \in (IF fu_fn = "rank_fusion" THEN FusionTopNs ELSE {100})
    /\ fu_w \in (IF fu_fn = "evaluator" THEN FusionWeights
                 ELSE { <<WeightUnit, WeightUnit>> })
    /\ fu_scores = <<>>
    /\ fu_fused = <<>>
    /\ fu_before = NoCall
    /\ fu_pc = "ready"

\* the call fn(vector, sub) and the record of the call before it
FusionStep(vector, sub) ==
    LET out == FusionCall(fu_fn, vector, sub, fu_k, fu_top_n, fu_w)
    IN  /\ fu_vector' = vector
        /\ fu_sub' = sub
        /\ fu_scores' = out.scores
        /\ fu_fused' = out.fused
        /\ fu_before' = IF fu_pc = "done"
                        THEN [called |-> TRUE, vector |-> fu_vector,
                              sub |-> fu_sub, scores |-> fu_scores]
                        ELSE NoCall
        /\ fu_pc' = "done"
        /\ UNCHANGED <<fu_fn, fu_k, fu_top_n, fu_w, notFusion>>

\* reciprocal_rank_fusion(vector_results, substructure_results, k, top_n)
Fuse ==
    /\ fu_pc = "ready"
    /\ fu_fn = "rank_fusion"
    /\ FusionStep(fu_vector, fu_sub)

\* Evaluator.reciprocal_rank_fusion(w_sem, w_str, k_rrf)
EvalFuse ==
    /\ fu_pc = "ready"
    /\ fu_fn = "evaluator"
    /\ FusionStep(fu_vector, fu_sub)

\* the same call with one item of one stream one position higher
FusePromoted ==
    /\ fu_pc = "done"
    /\ ~fu_before.called
    /\ \/ \E i \in 2..Len(fu_vector) : FusionStep(MoveUp(fu_vector, i), fu_sub)
       \/ \E i \in 2..Len(fu_sub) : FusionStep(fu_vector, MoveUp(fu_sub, i))

\* the same call of the evaluator, which ranks by raw score, with a higher
\* raw score for one item of one run
FuseRaised ==
    /\ fu_pc = "done"
    /\ fu_fn = "evaluator"
    /\ ~fu_before.called
    /\ \/ \E i \in 1..Len(fu_vector) :
            \E raw \in { r \in RawScores : r > fu_vector[i][2] } :
                FusionStep(WithRaw(fu_vector, i, raw), fu_sub)
       \/ \E i \in 1..Len(fu_sub) :
            \E raw \in { r \in RawScores : r > fu_sub[i][2] } :
                FusionStep(fu_vector, WithRaw(fu_sub, i, raw))

FusionNext == Fuse \/ EvalFuse \/ FusePromoted \/ FuseRaised

(***************************************************************************)
(* The path index as a state machine: build_index, then one search.        *)
(***************************************************************************)
PathIdle ==
    /\ pi_path_length = 2
    /\ pi_formulas = <<>>
    /\ pi_index = EmptyMap
    /\ pi_formula_lengths = EmptyMap
    /\ pi_idf = EmptyMap
    /\ pi_total_formulas = 0
    /\ pi_query = <<>>
    /\ pi_top_k = 1000
    /\ pi_result = <<>>
    /\ pi_pc = "idle"

PathInit ==
    /\ pi_path_length \in PathLengths
    /\ pi_formulas \in PathCorpora(MaxPathDocs)
    /\ pi_index = EmptyMap
    /\ pi_formula_lengths = EmptyMap
    /\ pi_idf = EmptyMap
    /\ pi_total_formulas = 0
    /\ pi_query \in PathLatex
    /\ pi_top_k \in PathTopKs
    /\ pi_result = <<>>
    /\ pi_pc = "new"

\* index_system.build_index(formulas)
PathBuild ==
    /\ pi_pc = "new"
    /\ LET ix == build_index(pi_formulas, pi_path_length)
       IN  /\ pi_index' = ix.index
           /\ pi_formula_lengths' = ix.formula_lengths
           /\ pi_idf' = ix.idf
           /\ pi_total_formulas' = ix.total_formulas
    /\ pi_pc' = "built"
    /\ UNCHANGED <<pi_path_length, pi_formulas, pi_query, pi_top_k, pi_result, notPath>>

\* index_system.search(query_latex, top_k)
PathSearch ==
    /\ pi_pc = "built"
    /\ pi_result' = search([index |-> pi_index, formula_lengths |-> pi_formula_lengths,
                            idf |-> pi_idf],
                           pi_path_length, pi_query, pi_top_k)
    /\ pi_pc' = "done"
    /\ UNCHANGED <<pi_path_length, pi_formulas, pi_index, pi_formula_lengths, pi_idf,
                   pi_total_formulas, pi_query, pi_top_k, notPath>>

PathNext == PathBuild \/ PathSearch

(***************************************************************************)
(* The hash index: build, then lookups by the evaluators.                  *)
(***************************************************************************)
MaxRows == 3          \* the TSV shards hold at most this many rows
HashRows == [visual_id : HashIds, issue : HashIssues, latex : HashFields]
NoBucket == "none"

EmptyStats ==
    [total_instances |-> 0, skipped_issue_d |-> 0, duplicate_skipped |-> 0,
     unique_visual_ids |-> 0, normalized_count |-> 0]

EmptyIndex == [h \in {} |-> <<>>]

HashIdle ==
    /\ hx_corpus = <<>>
    /\ hx_index = EmptyIndex
    /\ hx_stats = EmptyStats
    /\ hx_built = EmptyIndex
    /\ hx_query = <<>>
    /\ hx_via = "none"
    /\ hx_q_hash = ""
    /\ hx_returned = <<>>
    /\ hx_alias = NoBucket
    /\ hx_extended = FALSE
    /\ hx_pc = "idle"

\* corpus = {}, h_index = Approach0HashIndex(), stats = {...: 0}
HashInit ==
    /\ hx_corpus = <<>>
    /\ hx_index = EmptyIndex
    /\ hx_stats = EmptyStats
    /\ hx_built = EmptyIndex
    /\ hx_query = <<>>
    /\ hx_via = "none"
    /\ hx_q_hash = ""
    /\ hx_returned = <<>>
    /\ hx_alias = NoBucket
    /\ hx_extended = FALSE
    /\ hx_pc = "building"

\* one row of a shard (a row of fewer than nine fields changes nothing)
BuildRow ==
    /\ hx_pc = "building"
    /\ hx_stats.total_instances < MaxRows
    /\ \E row \in HashRows :
         LET st == build_row([corpus |-> hx_corpus, index |-> hx_index,
                              stats |-> hx_stats], row)
         IN  /\ hx_corpus' = st.corpus
             /\ hx_index' = st.index
             /\ hx_stats' = st.stats
    /\ UNCHANGED <<hx_built, hx_query, hx_via, hx_q_hash, hx_returned, hx_alias,
                   hx_extended, hx_pc, notHash>>

\* Part 3 of build_full_system: h_index.save; the evaluators load the file
BuildDone ==
    /\ hx_pc = "building"
    /\ hx_built' = hx_index
    /\ hx_pc' = "serving"
    /\ UNCHANGED <<hx_corpus, hx_index, hx_stats, hx_query, hx_via, hx_q_hash,
                   hx_returned, hx_alias, hx_extended, notHash>>

\* HybridEvaluator.search_single: the hash lookup of a query of
\* queries_full.json; h_res is the bucket itself when the hash is a key
HashSearch ==
    /\ hx_pc = "serving"
    /\ \E q \in HashQueries :
         LET h_val == hybrid_query_hash(q)
         IN  /\ hx_query' = q
             /\ hx_q_hash' = h_val
             /\ hx_returned' = Approach0HashIndex_search(hx_index, h_val)
             /\ hx_alias' = IF h_val \in DOMAIN hx_index THEN h_val ELSE NoBucket
    /\ hx_via' = "hybrid"
    /\ UNCHANGED <<hx_corpus, hx_index, hx_stats, hx_built, hx_extended, hx_pc,
                   notHash>>

\* CascadedRetriever.retrieve, stage 1, on a query of queries_full.json that
\* main has cleaned: the rows of that hash, a list of its own
CascadeSearch ==
    /\ hx_pc = "serving"
    /\ \E q \in HashQueries :
         LET q_hash == cascade_query_hash(q)
         IN  /\ hx_query' = q
             /\ hx_q_hash' = q_hash
             /\ hx_returned' = Prefix(DictGetList(hx_index, q_hash), Stage1TopK)
    /\ hx_alias' = NoBucket
    /\ hx_via' = "cascade"
    /\ UNCHANGED <<hx_corpus, hx_index, hx_stats, hx_built, hx_extended, hx_pc,
                   notHash>>

\* a caller appends a candidate to the list a lookup returned to it (as
\* StructuralRecall.recall does with the list of _exact_match); a list that
\* is a bucket of the index is extended in the index too
\* (one extension is followed)
ExtraCandidate == 9   \* the id the caller appends

CallerExtend ==
    /\ hx_pc = "serving"
    /\ hx_via # "none"
    /\ ~hx_extended
    /\ hx_returned' = Append(hx_returned, ExtraCandidate)
    /\ hx_index' = IF hx_alias = NoBucket THEN hx_index
                   ELSE [hx_index EXCEPT ![hx_alias] = Append(@, ExtraCandidate)]
    /\ hx_extended' = TRUE
    /\ UNCHANGED <<hx_corpus, hx_stats, hx_built, hx_query, hx_via, hx_q_hash,
                   hx_alias, hx_pc, notHash>>

HashNext == BuildRow \/ BuildDone \/ HashSearch \/ CascadeSearch \/ CallerExtend

(***************************************************************************)
(* The end-to-end scenario: one corpus of three formulas indexed by the    *)
(* path index and by the hash index, then queried.                         *)
(***************************************************************************)
ScenarioCorpus == << <<"a","+","b">>, <<"a","+","c">>, <<"x","*","y">> >>
ScenarioQueries == Range(ScenarioCorpus) \cup { <<"b","+","a">> }

\* the path index of the scenario: PathInvertedIndex(path_length=2)
ScenarioPathInit ==
    /\ pi_path_length = 2
    /\ pi_formulas = ScenarioCorpus
    /\ pi_index = EmptyMap
    /\ pi_formula_lengths = EmptyMap
    /\ pi_idf = EmptyMap
    /\ pi_total_formulas = 0
    /\ pi_query \in ScenarioQueries
    /\ pi_top_k \in PathTopKs
    /\ pi_result = <<>>
    /\ pi_pc = "new"

\* the next formula of the corpus as a row of the shard
ScenarioBuildRow ==
    /\ hx_pc = "building"
    /\ hx_stats.total_instances < Len(ScenarioCorpus)
    /\ LET n == hx_stats.total_instances + 1
           st == build_row([corpus |-> hx_corpus, index |-> hx_index,
                            stats |-> hx_stats],
                           [visual_id |-> n, issue |-> <<>>, latex |-> ScenarioCorpus[n]])
       IN  /\ hx_corpus' = st.corpus
           /\ hx_index' = st.index
           /\ hx_stats' = st.stats
    /\ UNCHANGED <<hx_built, hx_query, hx_via, hx_q_hash, hx_returned, hx_alias,
                   hx_extended, hx_pc, notHash>>

ScenarioNext ==
    \/ PathBuild \/ PathSearch
    \/ ScenarioBuildRow \/ BuildDone \/ HashSearch \/ CascadeSearch \/ CallerExtend

(***************************************************************************)
(* extract_structural_paths as a walk over the tokens, one step per token. *)
(***************************************************************************)
MaxStructPieces == 4  \* a formula is made of at most this many pieces

StructPieces ==
    { <<"{">>, <<"}">>, <<"^">>, <<"_">>, <<"a">>, <<"+">>, <<BS, "p", "i">> }

RECURSIVE StructSeqs(_)
StructSeqs(n) ==
    IF n = 0 THEN { <<>> }
    ELSE LET shorter == StructSeqs(n - 1)
         IN  shorter \cup { Append(ps, p) : ps \in shorter, p \in StructPieces }

StructInputs == { Concat(ps) : ps \in StructSeqs(MaxStructPieces) }

StructIdle ==
    /\ sp_latex = <<>>
    /\ sp_tokens = <<>>
    /\ sp_done = 0
    /\ sp_stack = <<>>
    /\ sp_origin = <<>>
    /\ sp_paths = <<>>
    /\ sp_log = <<>>

\* the call: tokens = re.findall(...), paths = [], stack = []
StructInit ==
    /\ sp_latex \in StructInputs
    /\ sp_tokens = StructTokens(sp_latex, 1)
    /\ sp_done = 0
    /\ sp_stack = <<>>
    /\ sp_origin = <<>>
    /\ sp_paths = <<>>
    /\ sp_log = <<>>

\* if t == '{': stack.append("sub")
WalkOpen ==
    /\ sp_done < Len(sp_tokens)
    /\ sp_tokens[sp_done + 1] = <<"{">>
    /\ sp_stack' = stack_after(sp_stack, sp_tokens[sp_done + 1])
    /\ sp_origin' = Append(sp_origin, sp_done + 1)
    /\ sp_done' = sp_done + 1
    /\ UNCHANGED <<sp_latex, sp_tokens, sp_paths, sp_log, notStruct>>

\* elif t == '}': if stack: stack.pop()
WalkClose ==
    /\ sp_done < Len(sp_tokens)
    /\ sp_tokens[sp_done + 1] = <<"}">>
    /\ sp_stack' = stack_after(sp_stack, sp_tokens[sp_done + 1])
    /\ sp_origin' = SubSeq(sp_origin, 1, Len(sp_stack'))
    /\ sp_done' = sp_done + 1
    /\ UNCHANGED <<sp_latex, sp_tokens, sp_paths, sp_log, notStruct>>

\* elif t in ['^', '_']: stack.append("sup" if t == '^' else "sub")
WalkScript ==
    /\ sp_done < Len(sp_tokens)
    /\ sp_tokens[sp_done + 1] \in { <<"^">>, <<"_">> }
    /\ sp_stack' = stack_after(sp_stack, sp_tokens[sp_done + 1])
    /\ sp_origin' = Append(sp_origin, sp_done + 1)
    /\ sp_done' = sp_done + 1
    /\ UNCHANGED <<sp_latex, sp_tokens, sp_paths, sp_log, notStruct>>

\* else: the paths of the atomic token are appended, and the top marker is
\* popped if it is "sup" or "sub"
WalkAtom ==
    /\ sp_done < Len(sp_tokens)
    /\ IsAtom(sp_tokens[sp_done + 1])
    /\ sp_paths' = sp_paths \o atom_paths(sp_stack, sp_tokens[sp_done + 1])
    /\ sp_log' = Append(sp_log, [token |-> sp_done + 1,
                                 origins |-> Range(sp_origin),
                                 paths |-> atom_paths(sp_stack, sp_tokens[sp_done + 1])])
    /\ sp_stack' = stack_after(sp_stack, sp_tokens[sp_done + 1])
    /\ sp_origin' = SubSeq(sp_origin, 1, Len(sp_stack'))
    /\ sp_done' = sp_done + 1
    /\ UNCHANGED <<sp_latex, sp_tokens, notStruct>>

StructNext == WalkOpen \/ WalkClose \/ WalkScript \/ WalkAtom

(***************************************************************************)
(* The structural index: build reads the shard lines, saves the index,     *)
(* and search answers queries from the saved index.                        *)
(***************************************************************************)
MaxLines == 3         \* lines of the first shard
BackgroundLines == 12 \* lines of the second shard, which repeats one row

\* the data rows of the first shard: formulas x, a^b, a_1, b and one without
\* a token
IpiRows ==
    { [fid |-> 1, latex |-> <<"x">>],
      [fid |-> 1, latex |-> <<"a", "^", "b">>],
      [fid |-> 2, latex |-> <<"a", "_", "1">>],
      [fid |-> 2, latex |-> <<"b">>],
      [fid |-> 2, latex |-> <<",">>] }
\* the row of the second shard
BackgroundRow == [fid |-> 3, latex |-> <<"x", "=", "x">>]
\* the queries: a^b, a_1, b=a_1 and x
IpiQueries ==
    { <<"a", "^", "b">>, <<"a", "_", "1">>, <<"b", "=", "a", "_", "1">>, <<"x">> }
NoData == [index |-> <<>>, idf |-> EmptyMap, total_docs |-> -1]

IpiIdle ==
    /\ ipi_lines = 0
    /\ ipi_index = <<>>
    /\ ipi_df_counts = EmptyMap
    /\ ipi_total_docs = 0
    /\ ipi_indexed = {}
    /\ ipi_data = NoData
    /\ ipi_query = <<>>
    /\ ipi_paths = <<>>
    /\ ipi_scored = <<>>
    /\ ipi_scores = <<>>
    /\ ipi_written = <<>>
    /\ ipi_pc = "idle"

IpiInit ==
    /\ ipi_lines = 0
    /\ ipi_index = <<>>
    /\ ipi_df_counts = EmptyMap
    /\ ipi_total_docs = 0
    /\ ipi_indexed = {}
    /\ ipi_data = NoData
    /\ ipi_query = <<>>
    /\ ipi_paths = <<>>
    /\ ipi_scored = <<>>
    /\ ipi_scores = <<>>
    /\ ipi_written = <<>>
    /\ ipi_pc = "building"

\* build, one line that is passed over: a header or a short line
IpiSkipLine ==
    /\ ipi_pc = "building"
    /\ ipi_lines < MaxLines
    /\ ipi_lines' = ipi_lines + 1
    /\ UNCHANGED <<ipi_index, ipi_df_counts, ipi_total_docs, ipi_indexed, ipi_data,
                   ipi_query, ipi_paths, ipi_scored, ipi_scores, ipi_written, ipi_pc,
                   notIpi>>

\* build, one data line of the first shard
IpiBuildLine ==
    /\ ipi_pc = "building"
    /\ ipi_lines < MaxLines
    /\ \E row \in IpiRows :
         LET st == build_line([index |-> ipi_index, df_counts |-> ipi_df_counts,
                               total_docs |-> ipi_total_docs], row)
         IN  /\ ipi_index' = st.index
             /\ ipi_df_counts' = st.df_counts
             /\ ipi_total_docs' = st.total_docs
             /\ ipi_indexed' = IF st.total_docs > ipi_total_docs
                               THEN ipi_indexed \cup {row.latex} ELSE ipi_indexed
    /\ ipi_lines' = ipi_lines + 1
    /\ UNCHANGED <<ipi_data, ipi_query, ipi_paths, ipi_scored, ipi_scores,
                   ipi_written, ipi_pc, notIpi>>

\* build, one data line of the second shard
IpiBuildBackground ==
    /\ ipi_pc = "building"
    /\ ipi_lines >= MaxLines
    /\ ipi_lines < MaxLines + BackgroundLines
    /\ LET st == build_line([index |-> ipi_index, df_counts |-> ipi_df_counts,
                             total_docs |-> ipi_total_docs], BackgroundRow)
       IN  /\ ipi_index' = st.index
           /\ ipi_df_counts' = st.df_counts
           /\ ipi_total_docs' = st.total_docs
    /\ ipi_indexed' = ipi_indexed \cup {BackgroundRow.latex}
    /\ ipi_lines' = ipi_lines + 1
    /\ UNCHANGED <<ipi_data, ipi_query, ipi_paths, ipi_scored, ipi_scores,
                   ipi_written, ipi_pc, notIpi>>

\* build, after the last line: the idf of every path, and pickle.dump
IpiSave ==
    /\ ipi_pc = "building"
    /\ ipi_data' = [index |-> ipi_index,
                    idf |-> idf_map_of(ipi_df_counts, ipi_total_docs),
                    total_docs |-> ipi_total_docs]
    /\ ipi_pc' = "saved"
    /\ UNCHANGED <<ipi_lines, ipi_index, ipi_df_counts, ipi_total_docs, ipi_indexed,
                   ipi_query, ipi_paths, ipi_scored, ipi_scores, ipi_written, notIpi>>

\* search, one query of queries_full.json
IpiSearch ==
    /\ ipi_pc \in {"saved", "searched"}
    /\ \E latex \in IpiQueries :
         LET paths == query_paths(latex, ipi_data.index)
             scores == ScoreQuery(<<>>, paths, ipi_data.index, ipi_data.idf)
         IN  /\ ipi_query' = latex
             /\ ipi_paths' = paths
             /\ ipi_scored' = Weighted(paths, ipi_data.idf)
             /\ ipi_scores' = scores
             /\ ipi_written' = Prefix(SortedByScore(scores), IpiCut)
    /\ ipi_pc' = "searched"
    /\ UNCHANGED <<ipi_lines, ipi_index, ipi_df_counts, ipi_total_docs, ipi_indexed,
                   ipi_data, notIpi>>

IpiNext == IpiSkipLine \/ IpiBuildLine \/ IpiBuildBackground \/ IpiSave \/ IpiSearch

(***************************************************************************)
(* The cascaded retriever: loaded, then queried.                           *)
(***************************************************************************)
MaxVectors == 2       \* the vector index holds at most this many vectors
CrIds == {"1", "2", "3"}
CrHashes == { generate_latex_hash(<<"a", "+", "b">>), generate_latex_hash(<<>>) }
CrQueries == { <<"a", "+", "b">>, <<"x", "*", "y">>, <<>> }
CrSims == {1, 2}
CrTopKs == {1, 2, FINAL_TOP_K}
CrTables == UNION { [S -> CrHashes] : S \in SUBSET CrIds }
CrMappings == UNION { [1..n -> CrIds] : n \in 0..MaxVectors }

CascadeIdle ==
    /\ cr_db = EmptyMap
    /\ cr_fids = <<>>
    /\ cr_sims = <<>>
    /\ cr_final_top_k = 0
    /\ cr_query = <<>>
    /\ cr_use_cascade = FALSE
    /\ cr_stage1_ids = <<>>
    /\ cr_mode = "none"
    /\ cr_result_ids = <<>>
    /\ cr_result_distances = [found |-> <<>>, unfilled |-> 0]
    /\ cr_pc = "idle"

\* CascadedRetriever(): the table, the index and the mapping as they are on
\* disk; the index holds one vector per entry of the mapping
CascadeInit ==
    /\ cr_db \in CrTables
    /\ cr_fids \in CrMappings
    /\ cr_sims \in [1..Len(cr_fids) -> CrSims]
    /\ cr_final_top_k \in CrTopKs
    /\ cr_query = <<>>
    /\ cr_use_cascade = FALSE
    /\ cr_stage1_ids = <<>>
    /\ cr_mode = "none"
    /\ cr_result_ids = <<>>
    /\ cr_result_distances = [found |-> <<>>, unfilled |-> 0]
    /\ cr_pc = "ready"

\* retriever.retrieve(query_latex, use_cascade); the call leaves the retriever
\* as it was, so one call from each loaded retriever is followed
Retrieve ==
    /\ cr_pc = "ready"
    /\ \E query_latex \in CrQueries, use_cascade \in BOOLEAN :
         \E r \in retrieve(cr_db, cr_fids, cr_sims, cr_final_top_k,
                           query_latex, use_cascade) :
             /\ cr_query' = query_latex
             /\ cr_use_cascade' = use_cascade
             /\ cr_stage1_ids' = r.stage1_ids
             /\ cr_mode' = r.mode
             /\ cr_result_ids' = r.result_ids
             /\ cr_result_distances' = r.result_distances
    /\ cr_pc' = "done"
    /\ UNCHANGED <<cr_db, cr_fids, cr_sims, cr_final_top_k, notCascade>>

CascadeNext == Retrieve

(***************************************************************************)
(* scripts/build_vector_index.py: build_index with its checkpoints, a      *)
(* process that can die at any step and be started again.                  *)
(***************************************************************************)
BATCH_SIZE == 256
CHECKPOINT_STEP == 50000
MaxCorpus == 3        \* formulas.json holds at most this many formulas
MaxCrashes == 2       \* the process dies at most this often
MaxSkipped == 1       \* at most this many batches raise an exception

\* the configuration of the source, and smaller ones under which a corpus of
\* the model spans several batches and checkpoints
VbConfigs ==
    { [batch_size |-> BATCH_SIZE, checkpoint_step |-> CHECKPOINT_STEP],
      [batch_size |-> 1, checkpoint_step |-> 2],
      [batch_size |-> 2, checkpoint_step |-> 2] }

NoFile == [exists |-> FALSE, content |-> <<>>]
NoState == [exists |-> FALSE, content |-> 0]
FileOf(content) == [exists |-> TRUE, content |-> content]

\* fids[i : end_idx], a formula written as its position in fids, from 1; the
\* vector of a formula is written as the same number
batch_fids(i, end_idx) == [k \in 1..(end_idx - i) |-> i + k]

\* end_idx = min(i + BATCH_SIZE, len(latex_list))
end_idx_of(i, config, total) == Min(i + config.batch_size, total)

\* (i + BATCH_SIZE) % CHECKPOINT_STEP == 0 or end_idx == len(latex_list)
checkpoint_due(i, config, total) ==
    \/ (i + config.batch_size) % config.checkpoint_step = 0
    \/ end_idx_of(i, config, total) = total

\* load_state()["last_processed_idx"]
load_state(state_file) == IF state_file.exists THEN state_file.content ELSE 0

BuildIdle ==
    /\ vb_total = 0
    /\ vb_config = [batch_size |-> 0, checkpoint_step |-> 0]
    /\ vb_index_file = NoFile
    /\ vb_mapping_file = NoFile
    /\ vb_state_file = NoState
    /\ vb_index = <<>>
    /\ vb_saved_fids = <<>>
    /\ vb_i = 0
    /\ vb_pc = "idle"
    /\ vb_crashes = 0
    /\ vb_skipped = 0

\* before the first run: no artifact is on disk
BuildInit ==
    /\ vb_total \in 1..MaxCorpus
    /\ vb_config \in VbConfigs
    /\ vb_index_file = NoFile
    /\ vb_mapping_file = NoFile
    /\ vb_state_file = NoState
    /\ vb_index = <<>>
    /\ vb_saved_fids = <<>>
    /\ vb_i = 0
    /\ vb_pc = "stopped"
    /\ vb_crashes = 0
    /\ vb_skipped = 0

\* build_index up to the loop: load_state, then the index and the mapping
\* from disk or new ones (open(MAPPING_PATH) raises when the file is missing)
BuildStart ==
    /\ vb_pc = "stopped"
    /\ LET start_idx == load_state(vb_state_file)
       IN  IF start_idx > 0 /\ vb_index_file.exists
           THEN /\ vb_mapping_file.exists
                /\ vb_index' = vb_index_file.content
                /\ vb_saved_fids' = vb_mapping_file.content
                /\ vb_i' = start_idx
           ELSE /\ vb_index' = <<>>
                /\ vb_saved_fids' = <<>>
                /\ vb_i' = 0
    /\ vb_pc' = "loop"
    /\ UNCHANGED <<vb_total, vb_config, vb_index_file, vb_mapping_file, vb_state_file,
                   vb_crashes, vb_skipped, notBuild>>

\* one batch: encode, index.add, saved_fids.extend; then the checkpoint if
\* it is due, else the next batch
EncodeBatch ==
    /\ vb_pc = "loop"
    /\ vb_i < vb_total
    /\ LET batch == batch_fids(vb_i, end_idx_of(vb_i, vb_config, vb_total))
       IN  /\ vb_index' = vb_index \o batch
           /\ vb_saved_fids' = vb_saved_fids \o batch
    /\ IF checkpoint_due(vb_i, vb_config, vb_total)
       THEN vb_pc' = "write_index" /\ vb_i' = vb_i
       ELSE vb_pc' = "loop" /\ vb_i' = vb_i + vb_config.batch_size
    /\ UNCHANGED <<vb_total, vb_config, vb_index_file, vb_mapping_file, vb_state_file,
                   vb_crashes, vb_skipped, notBuild>>

\* engine.encode raises: except Exception ... continue
EncodeFails ==
    /\ vb_pc = "loop"
    /\ vb_i < vb_total
    /\ vb_skipped < MaxSkipped
    /\ vb_skipped' = vb_skipped + 1
    /\ vb_i' = vb_i + vb_config.batch_size
    /\ UNCHANGED <<vb_total, vb_config, vb_index_file, vb_mapping_file, vb_state_file,
                   vb_index, vb_saved_fids, vb_pc, vb_crashes, notBuild>>

\* faiss.write_index(index, str(INDEX_PATH))
WriteIndex ==
    /\ vb_pc = "write_index"
    /\ vb_index_file' = FileOf(vb_index)
    /\ vb_pc' = "write_mapping"
    /\ UNCHANGED <<vb_total, vb_config, vb_mapping_file, vb_state_file, vb_index,
                   vb_saved_fids, vb_i, vb_crashes, vb_skipped, notBuild>>

\* json.dump(saved_fids, f)
WriteMapping ==
    /\ vb_pc = "write_mapping"
    /\ vb_mapping_file' = FileOf(vb_saved_fids)
    /\ vb_pc' = "write_state"
    /\ UNCHANGED <<vb_total, vb_config, vb_index_file, vb_state_file, vb_index,
                   vb_saved_fids, vb_i, vb_crashes, vb_skipped, notBuild>>

\* save_state(end_idx), then the next batch
WriteState ==
    /\ vb_pc = "write_state"
    /\ vb_state_file' = FileOf(end_idx_of(vb_i, vb_config, vb_total))
    /\ vb_i' = vb_i + vb_config.batch_size
    /\ vb_pc' = "loop"
    /\ UNCHANGED <<vb_total, vb_config, vb_index_file, vb_mapping_file, vb_index,
                   vb_saved_fids, vb_crashes, vb_skipped, notBuild>>

\* one of the three writes raises (a full disk): except Exception ... continue
WriteFails ==
    /\ vb_pc \in {"write_index", "write_mapping", "write_state"}
    /\ vb_skipped < MaxSkipped
    /\ vb_skipped' = vb_skipped + 1
    /\ vb_i' = vb_i + vb_config.batch_size
    /\ vb_pc' = "loop"
    /\ UNCHANGED <<vb_total, vb_config, vb_index_file, vb_mapping_file, vb_state_file,
                   vb_index, vb_saved_fids, vb_crashes, notBuild>>

\* the loop is over: build_index returns
BuildFinish ==
    /\ vb_pc = "loop"
    /\ vb_i >= vb_total
    /\ vb_pc' = "finished"
    /\ UNCHANGED <<vb_total, vb_config, vb_index_file, vb_mapping_file, vb_state_file,
                   vb_index, vb_saved_fids, vb_i, vb_crashes, vb_skipped, notBuild>>

\* the process dies; what it held in memory is gone, the files stay
BuildCrash ==
    /\ vb_pc \in {"loop", "write_index", "write_mapping", "write_state"}
    /\ vb_crashes < MaxCrashes
    /\ vb_crashes' = vb_crashes + 1
    /\ vb_index' = <<>>
    /\ vb_saved_fids' = <<>>
    /\ vb_i' = 0
    /\ vb_pc' = "stopped"
    /\ UNCHANGED <<vb_total, vb_config, vb_index_file, vb_mapping_file, vb_state_file,
                   vb_skipped, notBuild>>

BuildNext ==
    \/ BuildStart \/ EncodeBatch \/ EncodeFails \/ WriteIndex \/ WriteMapping
    \/ WriteState \/ WriteFails \/ BuildFinish \/ BuildCrash

(***************************************************************************)
(* Specifications: one per component, the other components idle.           *)
(***************************************************************************)
NormSpecInit ==
    NormInit /\ FilterIdle /\ RecallIdle /\ PipeIdle /\ FusionIdle /\ PathIdle
    /\ HashIdle
    /\ StructIdle /\ IpiIdle /\ CascadeIdle /\ BuildIdle
SpecNorm == NormSpecInit /\ [][NormNext]_vars

FilterSpecInit ==
    FilterInit /\ NormIdle /\ RecallIdle /\ PipeIdle /\ FusionIdle /\ PathIdle
    /\ HashIdle
    /\ StructIdle /\ IpiIdle /\ CascadeIdle /\ BuildIdle
SpecFilter == FilterSpecInit /\ [][FilterNext]_vars

RecallSpecInit ==
    RecallInit /\ NormIdle /\ FilterIdle /\ PipeIdle /\ FusionIdle /\ PathIdle
    /\ HashIdle
    /\ StructIdle /\ IpiIdle /\ CascadeIdle /\ BuildIdle
SpecRecall == RecallSpecInit /\ [][RecallNext]_vars

PipeSpecInit ==
    PipeInit /\ NormIdle /\ FusionIdle /\ PathIdle /\ HashIdle
    /\ StructIdle /\ IpiIdle /\ CascadeIdle /\ BuildIdle
SpecPipeline == PipeSpecInit /\ [][PipeNext]_vars

FusionSpecInit ==
    FusionInit /\ NormIdle /\ FilterIdle /\ RecallIdle /\ PipeIdle /\ PathIdle
    /\ HashIdle
    /\ StructIdle /\ IpiIdle /\ CascadeIdle /\ BuildIdle
SpecFusion == FusionSpecInit /\ [][FusionNext]_vars

PathSpecInit ==
    PathInit /\ NormIdle /\ FilterIdle /\ RecallIdle /\ PipeIdle /\ FusionIdle
    /\ HashIdle
    /\ StructIdle /\ IpiIdle /\ CascadeIdle /\ BuildIdle
SpecPath == PathSpecInit /\ [][PathNext]_vars

HashSpecInit ==
    HashInit /\ NormIdle /\ FilterIdle /\ RecallIdle /\ PipeIdle /\ FusionIdle
    /\ PathIdle
    /\ StructIdle /\ IpiIdle /\ CascadeIdle /\ BuildIdle
SpecHash == HashSpecInit /\ [][HashNext]_vars

ScenarioSpecInit ==
    ScenarioPathInit /\ HashInit /\ NormIdle /\ FilterIdle /\ RecallIdle /\ PipeIdle
    /\ FusionIdle
    /\ StructIdle /\ IpiIdle /\ CascadeIdle /\ BuildIdle
SpecScenario == ScenarioSpecInit /\ [][ScenarioNext]_vars

StructSpecInit ==
    StructInit /\ NormIdle /\ FilterIdle /\ RecallIdle /\ PipeIdle /\ FusionIdle
    /\ PathIdle /\ HashIdle /\ IpiIdle /\ CascadeIdle /\ BuildIdle
SpecStruct == StructSpecInit /\ [][StructNext]_vars

IpiSpecInit ==
    IpiInit /\ NormIdle /\ FilterIdle /\ RecallIdle /\ PipeIdle /\ FusionIdle
    /\ PathIdle /\ HashIdle /\ StructIdle /\ CascadeIdle /\ BuildIdle
SpecIpi == IpiSpecInit /\ [][IpiNext]_vars

CascadeSpecInit ==
    CascadeInit /\ NormIdle /\ FilterIdle /\ RecallIdle /\ PipeIdle /\ FusionIdle
    /\ PathIdle /\ HashIdle /\ StructIdle /\ IpiIdle /\ BuildIdle
SpecCascade == CascadeSpecInit /\ [][CascadeNext]_vars

BuildSpecInit ==
    BuildInit /\ NormIdle /\ FilterIdle /\ RecallIdle /\ PipeIdle /\ FusionIdle
    /\ PathIdle /\ HashIdle /\ StructIdle /\ IpiIdle /\ CascadeIdle
SpecBuild == BuildSpecInit /\ [][BuildNext]_vars

(***************************************************************************)
(* Claims.                                                                 *)
(***************************************************************************)
\* C1: clean_latex is idempotent: cleaning a canonical string returns it
\* unchanged.
C1_Idempotent == norm_calls >= 2 => canonical = prev_canonical

\* C2: the confidence filter never turns a non-empty candidate list into an
\* empty one.
C2_FilterNeverEmpties ==
    (f_pc = "done" /\ f_candidates # <<>>) => f_result # <<>>

\* C2 witness: every candidate was below the threshold, also on the retry,
\* and apply returned the unfiltered list.
C2_Witness_AllBelow ==
    /\ f_pc = "done"
    /\ Len(f_candidates) > EmergencyMinCandidates
    /\ f_filtered = <<>>
    /\ f_result = f_candidates

\* C4: for fuzzy_max_buckets >= 1, the candidates _fuzzy_match returns
\* include every candidate of the exact bucket of the query hash.
C4_FuzzySuperset ==
    (r_pc = "done" /\ InSeq("fuzzy", r_stages) /\ r_config.fuzzy_max_buckets >= 1) =>
        \A i \in 1..Len(r_exact) : InSeq(r_exact[i], r_fuzzy)

\* C5: for fuzzy_max_buckets >= 1, one call of _fuzzy_match computes the
\* Hamming distance of at most fuzzy_max_buckets buckets.
C5_FuzzyBoundedScan ==
    (r_pc = "done" /\ InSeq("fuzzy", r_stages) /\ r_config.fuzzy_max_buckets >= 1) =>
        r_examined <= r_config.fuzzy_max_buckets

\* C6: with a non-empty query, topk >= 1 and a non-empty corpus, recall
\* returns between 1 and topk candidates; when neither lookup found anything
\* it returns min(topk, corpus size) distinct formulas of the corpus; it
\* returns the empty list only for an empty corpus or an empty query.
C6_NonZeroRecall ==
    (r_pc = "done" /\ r_topk >= 1) =>
        /\ (r_query # <<>> /\ r_index.all_formulas # <<>>) =>
               (Len(r_result) >= 1 /\ Len(r_result) <= r_topk)
        /\ (r_query # <<>> /\ r_exact = <<>> /\ r_fuzzy = <<>>) =>
               /\ Len(r_result) = Min(r_topk, Len(r_index.all_formulas))
               /\ \A i, j \in 1..Len(r_result) : i # j => r_result[i] # r_result[j]
               /\ \A i \in 1..Len(r_result) : InSeq(r_result[i], r_index.all_formulas)
        /\ r_result = <<>> => (r_index.all_formulas = <<>> \/ r_query = <<>>)

\* C6 witness: neither lookup found a candidate and the random sample filled
\* the result.
C6_Witness_Fallback ==
    /\ r_pc = "done"
    /\ r_stages = <<"exact", "fuzzy", "fallback">>
    /\ r_topk = 2
    /\ Len(r_index.all_formulas) = 3
    /\ Len(r_result) = 2

\* C3: when the recall stage returned a candidate and final_k >= 1, the
\* staged search returns a non-empty result, whatever the later stages drop.
C3_StageFallback ==
    (p_pc = "done" /\ p_recalled # <<>> /\ p_config.final_k >= 1) => p_result # <<>>

C8_Monotone ==
    (fu_pc = "done" /\ fu_before.called) =>
        \A fid \in FusionIds :
            LET rv == RankIn(fu_fn, fu_vector, fid)
                rv0 == RankIn(fu_fn, fu_before.vector, fid)
                rs == RankIn(fu_fn, fu_sub, fid)
                rs0 == RankIn(fu_fn, fu_before.sub, fid)
            IN  (\/ (fu_sub = fu_before.sub /\ rv # 0 /\ rv < rv0)
                 \/ (fu_vector = fu_before.vector /\ rs # 0 /\ rs < rs0))
                => ScoreOf(fu_scores, fid) >= ScoreOf(fu_before.scores, fid)

\* C8 witness: an id both streams hold got a better rank in the first stream,
\* the second stream being the same, and its fused score grew.
C8_Witness_Promoted ==
    /\ fu_pc = "done"
    /\ fu_before.called
    /\ fu_sub = fu_before.sub
    /\ \E fid \in FusionIds :
         /\ RankIn(fu_fn, fu_sub, fid) # 0
         /\ RankIn(fu_fn, fu_vector, fid) # 0
         /\ RankIn(fu_fn, fu_vector, fid) < RankIn(fu_fn, fu_before.vector, fid)
         /\ ScoreOf(fu_scores, fid) > ScoreOf(fu_before.scores, fid)

\* C9: the list rank_fusion returns is the first top_n entries of the
\* accumulator by fused score descending, entries of equal score by id
\* ascending, and it is the list returned when the two streams are passed in
\* the other order.
C9_FusedOrder ==
    (fu_pc = "done" /\ fu_fn = "rank_fusion") =>
        /\ Len(fu_fused) = Min(Len(fu_scores), fu_top_n)
        /\ \A i \in 1..Len(fu_fused) : InSeq(fu_fused[i], fu_scores)
        /\ \A i \in 1..(Len(fu_fused) - 1) :
             \/ fu_fused[i][2] > fu_fused[i + 1][2]
             \/ /\ fu_fused[i][2] = fu_fused[i + 1][2]
                /\ fu_fused[i][1] < fu_fused[i + 1][1]
        /\ \A j \in 1..Len(fu_scores) :
             InSeq(fu_scores[j], fu_fused) \/
             \A i \in 1..Len(fu_fused) :
                 \/ fu_fused[i][2] > fu_scores[j][2]
                 \/ /\ fu_fused[i][2] = fu_scores[j][2]
                    /\ fu_fused[i][1] < fu_scores[j][1]
        /\ fu_fused = reciprocal_rank_fusion(fu_sub, fu_vector, fu_k, fu_top_n)

\* C10: search returns at most top_k pairs, each id once, by score
\* descending with pairs of equal score by id ascending, and only ids of
\* formulas that share a path with the query.
C10_SearchRanked ==
    pi_pc = "done" =>
        /\ Len(pi_result) <= pi_top_k
        /\ \A i, j \in 1..Len(pi_result) : i # j => pi_result[i][1] # pi_result[j][1]
        /\ \A i \in 1..(Len(pi_result) - 1) :
             \/ ScoreGreater(pi_result[i][2], pi_result[i + 1][2])
             \/ /\ ~ScoreGreater(pi_result[i + 1][2], pi_result[i][2])
                /\ pi_result[i][1] < pi_result[i + 1][1]
        /\ \A i \in 1..Len(pi_result) :
             /\ pi_result[i][1] \in 1..Len(pi_formulas)
             /\ Range(extract_paths(pi_formulas[pi_result[i][1]], pi_path_length))
                  \cap Range(extract_paths(pi_query, pi_path_length)) # {}

\* C11: queries never mutate an index: while the index is served, whatever
\* lookups have run and whatever a caller has done with a list returned to
\* it, every hash bucket equals its value right after the build.
C11_IndexImmutable == hx_pc = "serving" => hx_index = hx_built

\* C12: hash-index exactness.  After the build has processed any sequence of
\* rows, every id in bucket h is an accepted formula whose normalized LaTeX
\* hashes to h, every accepted id is in the bucket of its own hash, and each
\* bucket lists its ids in the order the build accepted them.  The hash of a
\* formula is recomputed from its stored raw LaTeX, as diagnose_index does.
C12_IndexAfterBuild == IF hx_pc = "serving" THEN hx_built ELSE hx_index

C12_RecalcHash(entry) == generate_latex_hash(hash_gen_clean_latex(entry.latex)[1])

C12_IdsOfHash(h) ==
    LET hits == SelectSeq(hx_corpus, LAMBDA e : C12_RecalcHash(e) = h)
    IN  [i \in 1..Len(hits) |-> hits[i].formula_id]

C12_HashExact ==
    hx_pc \in {"building", "serving"} =>
        LET ix == C12_IndexAfterBuild
        IN  /\ \A h \in DOMAIN ix : \A i \in 1..Len(ix[h]) :
                  \E j \in 1..Len(hx_corpus) :
                      /\ hx_corpus[j].formula_id = ix[h][i]
                      /\ C12_RecalcHash(hx_corpus[j]) = h
            /\ \A j \in 1..Len(hx_corpus) :
                  /\ C12_RecalcHash(hx_corpus[j]) \in DOMAIN ix
                  /\ InSeq(hx_corpus[j].formula_id, ix[C12_RecalcHash(hx_corpus[j])])
            /\ \A h \in DOMAIN ix : ix[h] = C12_IdsOfHash(h)

\* the build has skipped a row and holds a bucket of two formulas whose ids
\* were accepted in descending order and whose raw LaTeX differs
C12_Witness_SharedBucket ==
    /\ hx_pc = "building"
    /\ hx_stats.duplicate_skipped + hx_stats.skipped_issue_d >= 1
    /\ \E h \in DOMAIN hx_index :
         /\ Len(hx_index[h]) = 2
         /\ hx_index[h][1] > hx_index[h][2]
         /\ \E i, j \in 1..Len(hx_corpus) :
              /\ hx_corpus[i].formula_id = hx_index[h][1]
              /\ hx_corpus[j].formula_id = hx_index[h][2]
              /\ hx_corpus[i].latex # hx_corpus[j].latex

\* C13: empty input is harmless.  A lookup of the empty LaTeX query, in an
\* index built from any corpus, has the empty canonical string and returns
\* no id.
C13_EmptyQueryNoId ==
    (hx_pc = "serving" /\ hx_via # "none" /\ hx_query = <<>> /\ ~hx_extended) =>
        /\ prepared_query(hx_query) = <<>>
        /\ hx_returned = <<>>

\* C14: an invalid configuration is rejected before any query is served: a
\* recall call that has run had fuzzy_max_buckets >= 1 and topk >= 1.
C14_ConfigRejected ==
    (r_pc = "done" /\ r_query # <<>>) =>
        (r_config.fuzzy_max_buckets >= 1 /\ r_topk >= 1)

\* C15: filter bypass.  When fewer than 5% of the candidates pass the
\* threshold of the call, so that the filter would remove more than 95% of
\* them, apply returns the unfiltered candidates in their order.
C15_PassedFirst ==
    SelectSeq(f_candidates,
              LAMBDA c : c.sim >= get_adaptive_threshold(f_config, f_query))

C15_FilterBypass ==
    (f_pc = "done" /\ f_candidates # <<>>
        /\ PassRateLow(Len(C15_PassedFirst), Len(f_candidates))) =>
        f_result = f_candidates

\* C16: build-time and query-time canonicalization agree in the hash
\* cascade.  When the query of a cascade lookup has the raw LaTeX of a corpus
\* formula, the hash computed for the query is the hash under which the build
\* stored the formula, and the hash stage returns the formula.
C16_CascadeFindsItself ==
    (hx_pc = "serving" /\ hx_via = "cascade" /\ ~hx_extended) =>
        \A j \in 1..Len(hx_corpus) :
            hx_corpus[j].latex = StrStrip(hx_query) =>
                /\ hx_q_hash = generate_latex_hash(hx_corpus[j].latex_norm)
                /\ InSeq(hx_corpus[j].formula_id, hx_returned)

\* C17: the end-to-end scenario.  With the corpus {1: "a+b", 2: "a+c",
\* 3: "x*y"} indexed with path length 2, the structural search for "a+b"
\* returns formula 1 with a higher score than formula 2 and does not return
\* formula 3, which so ranks below both; the exact hash lookup for "a+b"
\* returns formula 1 alone.
C17_Query == <<"a","+","b">>

C17_HashCorpusIndexed ==
    /\ hx_pc = "serving"
    /\ [i \in 1..Len(hx_corpus) |-> hx_corpus[i].latex] = ScenarioCorpus
    /\ [i \in 1..Len(hx_corpus) |-> hx_corpus[i].formula_id] = <<1, 2, 3>>

C17_Scenario ==
    /\ (pi_pc = "done" /\ pi_formulas = ScenarioCorpus /\ pi_path_length = 2
            /\ pi_query = C17_Query /\ pi_top_k >= 2) =>
           /\ [i \in 1..Len(pi_result) |-> pi_result[i][1]] = <<1, 2>>
           /\ ScoreGreater(pi_result[1][2], pi_result[2][2])
    /\ (C17_HashCorpusIndexed /\ hx_via # "none" /\ hx_query = C17_Query
            /\ ~hx_extended) =>
           hx_returned = <<1>>

\* both indexes hold the scenario corpus and have answered the query "a+b"
C17_Witness_BothAnswered ==
    /\ pi_pc = "done" /\ pi_formulas = ScenarioCorpus /\ pi_path_length = 2
    /\ pi_query = C17_Query /\ pi_top_k >= 2
    /\ Len(pi_result) = 2
    /\ C17_HashCorpusIndexed /\ hx_via = "hybrid" /\ hx_query = C17_Query
    /\ ~hx_extended
    /\ hx_returned = <<1>>

\* C18: path count.  For a string of n tokens and the window length L >= 1
\* of the index, _extract_paths returns max(0, n - L + 1) paths, the i-th
\* being the join of tokens i .. i+L-1; build_index stores that count as the
\* length of every formula that has a path, and posts the formula under each
\* of its windows.
C18_Tokens(latex) == FindTokens(StripSpace(latex), 1)

C18_Count(latex) ==
    LET n == Len(C18_Tokens(latex)) - pi_path_length + 1
    IN  IF n > 0 THEN n ELSE 0

C18_Window(tokens, i) == JoinArrow(SubSeq(tokens, i, i + pi_path_length - 1))

C18_PathsOf(latex) ==
    LET paths == extract_paths(latex, pi_path_length)
        tokens == C18_Tokens(latex)
        n == Len(tokens) - pi_path_length + 1
    IN  /\ Len(paths) = (IF n > 0 THEN n ELSE 0)
        /\ \A i \in 1..Len(paths) : paths[i] = C18_Window(tokens, i)

C18_Indexed(fid) ==
    LET tokens == C18_Tokens(pi_formulas[fid])
        n == Len(tokens) - pi_path_length + 1
    IN  /\ fid \in DOMAIN pi_formula_lengths <=> n > 0
        /\ fid \in DOMAIN pi_formula_lengths => pi_formula_lengths[fid] = n
        /\ \A i \in 1..n :
              /\ C18_Window(tokens, i) \in DOMAIN pi_index
              /\ InSeq(fid, pi_index[C18_Window(tokens, i)])

C18_PathCount ==
    (pi_pc = "built" /\ pi_path_length >= 1) =>
        /\ C18_PathsOf(pi_query)
        /\ \A fid \in 1..Len(pi_formulas) :
              C18_PathsOf(pi_formulas[fid]) /\ C18_Indexed(fid)

\* the index holds a formula of several windows and a formula with tokens
\* but fewer than L of them
C18_Witness_LongAndShort ==
    /\ pi_pc = "built"
    /\ \E f, g \in 1..Len(pi_formulas) :
         /\ C18_Count(pi_formulas[f]) >= 2
         /\ pi_formula_lengths[f] >= 2
         /\ C18_Tokens(pi_formulas[g]) # <<>>
         /\ Len(C18_Tokens(pi_formulas[g])) < pi_path_length
         /\ g \notin DOMAIN pi_formula_lengths

\* C19: equal-weight reduction.  With w_sem = w_str = 1 the evaluator's
\* weighted fusion gives every id the fused score that the unweighted
\* reciprocal_rank_fusion gives it on the same two ranked lists (the runs in
\* the order the evaluator ranks them) with the same k, and fuses the same
\* ids.
C19_Classical ==
    reciprocal_rank_fusion(SortedByScore(fu_vector), SortedByScore(fu_sub), fu_k,
                           Len(fu_vector) + Len(fu_sub))

RECURSIVE C20_TokenSpans(_, _)
C20_TokenSpans(latex, i) ==
    IF i > Len(latex) THEN <<>>
    ELSE IF latex[i] = BS /\ i < Len(latex) /\ latex[i + 1] \in Letters THEN
        LET e == RunEnd(latex, i + 1, Letters)
        IN  <<<<i, e - 1>>>> \o C20_TokenSpans(latex, e)
    ELSE IF latex[i] \in BraceChars \cup Digits \cup Letters \cup OperatorChars THEN
        <<<<i, i>>>> \o C20_TokenSpans(latex, i + 1)
    ELSE C20_TokenSpans(latex, i + 1)

\* the positions of x after which one token ends and the next begins
C20_Boundaries(x) ==
    LET spans == C20_TokenSpans(x, 1)
    IN  { spans[j][2] : j \in { n \in 1..(Len(spans) - 1) :
                                   spans[n][2] + 1 = spans[n + 1][1] } }

C20_Spaced(x, i) == SubSeq(x, 1, i) \o <<" ">> \o SubSeq(x, i + 1, Len(x))

C20_Wrapped(x) ==
    { <<"$">> \o x \o <<"$">>,
      <<"$", "$">> \o x \o <<"$", "$">>,
      <<BS, "[">> \o x \o <<BS, "]">> }

C20_Example ==
    clean_latex(<<"$", BS,"a","l","p","h","a", "+", BS,"b","e","t","a", "$">>)[1]
        = clean_latex(<<BS,"a","l","p","h","a", " ", "+", " ", BS,"b","e","t","a">>)[1]

C20_WhitespaceDelims ==
    /\ C20_Example
    /\ norm_calls = 1 =>
          /\ \A i \in C20_Boundaries(latex_str) :
                clean_latex(C20_Spaced(latex_str, i))[1] = canonical
          /\ \A w \in C20_Wrapped(latex_str) : clean_latex(w)[1] = canonical

\* C21: recall cascade order.  The fuzzy lookup runs only after the exact
\* lookup and only when the exact lookup returned fewer than topk candidates
\* (and fuzzy matching is enabled); the returned list then starts with every
\* exact-match candidate, in the order of the exact lookup, every later
\* candidate is a fuzzy candidate that is no exact match, and no id the fuzzy
\* stage added is already in the list before it.
C21_CascadeOrder ==
    (r_pc = "done" /\ InSeq("fuzzy", r_stages)) =>
        LET n == Len(r_exact)
        IN  /\ r_stages[1] = "exact" /\ r_stages[2] = "fuzzy"
            /\ n < r_topk
            /\ r_config.enable_fuzzy
            /\ Len(r_result) >= n
            /\ SubSeq(r_result, 1, n) = r_exact
            /\ ~InSeq("fallback", r_stages) =>
                   \A j \in (n + 1)..Len(r_result) :
                       /\ InSeq(r_result[j], r_fuzzy)
                       /\ ~InSeq(r_result[j], r_exact)
                       /\ \A i \in 1..(j - 1) : r_result[i] # r_result[j]

\* C21 witness: the exact lookup found two of three wanted candidates, the
\* fuzzy lookup returned them again with a third one, and the result holds
\* the two exact matches and then the third.
C21_Witness_ExactThenFuzzy ==
    /\ r_pc = "done"
    /\ r_stages = <<"exact", "fuzzy">>
    /\ r_topk = 3
    /\ Len(r_exact) = 2
    /\ \A i \in 1..2 : InSeq(r_exact[i], r_fuzzy)
    /\ Len(r_result) = 3
    /\ SubSeq(r_result, 1, 2) = r_exact
    /\ ~InSeq(r_result[3], r_exact)

\* C22: the alias table is applied longest key first, so that no shorter
\* alias rewrites part of a longer alias's match or of its replacement: for
\* every entry K -> V of the table, the input K alone normalizes to V.
C22_LongestFirst ==
    norm_calls = 1 =>
        \A n \in 1..Len(sorted_symbols) :
            latex_str = sorted_symbols[n][1] => canonical = sorted_symbols[n][2]

\* C23: pure-rendering commands are stripped.  Inserting \left, \right or
\* \displaystyle at a token boundary of a non-empty x leaves the canonical
\* string of x unchanged; with x = "( a )" this is the case of \left( a \right) against
\* ( a ).  A token boundary is a position that is not inside a token of the
\* repository's tokenizer and is not followed by a letter, so that the
\* inserted command is a token of its own.
C23_Commands ==
    { <<BS,"l","e","f","t">>, <<BS,"r","i","g","h","t">>,
      <<BS,"d","i","s","p","l","a","y","s","t","y","l","e">> }

C23_InsertPoints(x) ==
    LET spans == C20_TokenSpans(x, 1)
    IN  { i \in 0..Len(x) :
            /\ \A n \in 1..Len(spans) : ~(spans[n][1] <= i /\ i < spans[n][2])
            /\ i < Len(x) => x[i + 1] \notin Letters }

C23_Inserted(x, i, cmd) == SubSeq(x, 1, i) \o cmd \o SubSeq(x, i + 1, Len(x))

C23_RenderingStripped ==
    (norm_calls = 1 /\ latex_str # <<>>) =>
        \A i \in C23_InsertPoints(latex_str) : \A cmd \in C23_Commands :
            clean_latex(C23_Inserted(latex_str, i, cmd))[1] = canonical

\* C27: the normalizer preserves brace balance.  When the braces of the
\* input are balanced (and the input holds none of the aliases \lbrace and
\* \rbrace, which the alias table turns into braces), the braces of the
\* canonical string are balanced too; x^{y_{z}} and {{a}b} are such inputs.
RECURSIVE C27_Depth(_, _, _)
C27_Depth(s, i, depth) ==
    IF i > Len(s) THEN depth
    ELSE IF s[i] = "{" THEN C27_Depth(s, i + 1, depth + 1)
    ELSE IF s[i] = "}" THEN
        (IF depth = 0 THEN -1 ELSE C27_Depth(s, i + 1, depth - 1))
    ELSE C27_Depth(s, i + 1, depth)

\* every } closes an open {, and every { is closed
C27_Balanced(s) == C27_Depth(s, 1, 0) = 0

C27_BalancePreserved ==
    (/\ norm_calls >= 1
     /\ C27_Balanced(latex_str)
     /\ ~Contains(latex_str, <<BS,"l","b","r","a","c","e">>)
     /\ ~Contains(latex_str, <<BS,"r","b","r","a","c","e">>)) =>
        C27_Balanced(canonical)

\* C25: index construction counts each distinct path of a formula once.
\* After build_index, for every indexed formula id, formula_lengths[id] is
\* the number of posting lists that contain id, and each of these posting
\* lists contains id exactly once.
C25_Postings(fid) == { p \in DOMAIN pi_index : InSeq(fid, pi_index[p]) }

C25_DistinctPathsOnce ==
    pi_pc = "built" =>
        \A fid \in DOMAIN pi_formula_lengths :
            /\ pi_formula_lengths[fid] = Cardinality(C25_Postings(fid))
            /\ \A p \in C25_Postings(fid) :
                  Cardinality({ i \in 1..Len(pi_index[p]) : pi_index[p][i] = fid }) = 1

\* C30: every idf weight build_index computes is non-negative, whatever the
\* corpus size N >= 1 and the document frequency 1 <= df <= N of the path.
C30_IdfNonNegative ==
    pi_pc = "built" =>
        \A p \in DOMAIN pi_idf :
            (pi_total_formulas >= 1 /\ Len(pi_index[p]) \in 1..pi_total_formulas) =>
                pi_idf[p] >= 0

\* C24: nesting in the path tokenizer.  The marker a `{` pushes stays on the
\* stack until the matching `}`, so that every atomic token between a `{`
\* and its matching `}` is processed with that brace's marker on the stack
\* and gets a stack-qualified path (the path under the whole stack) that
\* contains it.
RECURSIVE C24_MatchFrom(_, _, _)
C24_MatchFrom(tokens, j, depth) ==
    IF j > Len(tokens) THEN 0
    ELSE IF tokens[j] = <<"{">> THEN C24_MatchFrom(tokens, j + 1, depth + 1)
    ELSE IF tokens[j] = <<"}">> THEN
        (IF depth = 0 THEN j ELSE C24_MatchFrom(tokens, j + 1, depth - 1))
    ELSE C24_MatchFrom(tokens, j + 1, depth)

\* the braces that are open at token t and closed after it
C24_Enclosing(tokens, t) ==
    { b \in 1..(t - 1) :
        tokens[b] = <<"{">> /\ C24_MatchFrom(tokens, b + 1, 0) > t }

C24_BraceMarkerKept ==
    \A n \in 1..Len(sp_log) :
        \A b \in C24_Enclosing(sp_tokens, sp_log[n].token) :
            /\ b \in sp_log[n].origins
            /\ Len(sp_log[n].paths) = 3

\* C28: the structural index is searched with the path extraction it was
\* built with.  When a formula f that build has indexed is the query, every
\* path build stored for f is among the paths search looks up.
C28_SamePaths ==
    (ipi_pc = "searched" /\ ipi_query \in ipi_indexed) =>
        \A p \in Range(extract_structural_paths(ipi_query)) : InSeq(p, ipi_paths)

\* C26: CascadedRetriever.retrieve never ranks over an empty candidate set:
\* when the hash stage returns no id, or none of its ids is in the vector id
\* mapping, the result is a result of the full search; otherwise every
\* returned id is a hash-stage candidate; in both modes at most FINAL_TOP_K
\* ids are returned.
C26_Known == { fid \in Range(cr_stage1_ids) : str(fid) \in Range(cr_fids) }

C26_FullResults ==
    { <<r.result_ids, r.result_distances>> :
        r \in retrieve(cr_db, cr_fids, cr_sims, cr_final_top_k, cr_query, FALSE) }

C26_NeverEmptyCandidates ==
    cr_pc = "done" =>
        /\ Len(cr_result_ids) <= cr_final_top_k
        /\ cr_use_cascade =>
             IF C26_Known = {}
             THEN /\ cr_mode = "full"
                  /\ <<cr_result_ids, cr_result_distances>> \in C26_FullResults
             ELSE /\ cr_mode = "cascade"
                  /\ cr_result_ids # <<>>
                  /\ Range(cr_result_ids) \subseteq C26_Known

\* C26 witness: the hash stage returned ids, none of them is in the mapping,
\* and the call fell back to the full search over a non-empty index.
C26_Witness_FellBack ==
    /\ cr_pc = "done"
    /\ cr_use_cascade
    /\ cr_stage1_ids # <<>>
    /\ C26_Known = {}
    /\ cr_mode = "full"
    /\ cr_result_ids # <<>>

\* a cascade call whose cut took effect: more known candidates than
\* FINAL_TOP_K, and exactly FINAL_TOP_K ids returned
C26_CutTaken ==
    /\ cr_pc = "done"
    /\ cr_mode = "cascade"
    /\ Cardinality(C26_Known) > cr_final_top_k
    /\ Len(cr_result_ids) = cr_final_top_k

\* C29: the checkpointed vector-index build is crash-consistent: when
\* build_index has crashed and was restarted, the resumed build ends with the
\* id mapping and the vector index aligned and complete: as many mapping
\* entries as vectors, entry i the id of vector i, and one vector for every
\* corpus formula.
C29_Corpus == batch_fids(0, vb_total)

C29_CrashConsistent ==
    (vb_pc = "finished" /\ vb_crashes >= 1) =>
        /\ vb_index_file = FileOf(C29_Corpus)
        /\ vb_mapping_file = FileOf(C29_Corpus)
        /\ vb_index = C29_Corpus
        /\ vb_saved_fids = C29_Corpus

====
